---- MODULE Spec2Model ----
(***************************************************************************)
(* CodePrompt: the prompt builder, in its two shipped implementations      *)
(* (utils/promptBuilder.js for Node and the CLI, web/app.js for the        *)
(* browser), applied to a task type tag and an option mapping that a       *)
(* caller collects answer by answer.                                       *)
(*                                                                         *)
(* Prompts are TLA+ strings and are built character for character as the   *)
(* JavaScript builds them: the templates, phrase dictionaries and literals *)
(* are copied from the sources, String.prototype.replace / includes /      *)
(* trim / toLowerCase and Array.prototype.join are operators on strings.   *)
(*                                                                         *)
(* Input domain of the model (Choices below): option values are the tags   *)
(* of the CLI and web select lists, a few free-text answers, the blank     *)
(* string, and the non-string values boolean and array.  No option value   *)
(* holds "{{" or "$", so the order in which Object.keys visits the keys    *)
(* and the "$" patterns of replace() cannot be observed, and no option     *)
(* value is the name of a property inherited from Object.prototype, so a   *)
(* dictionary lookup by option value is an own-property lookup.  The task  *)
(* type tag does range over such a name ("constructor").                   *)
(*                                                                         *)
(* Spec is the builder and its caller.  OptimizerSpec applies the three    *)
(* functions of utils/promptOptimizer.js (the same text is in web/app.js)  *)
(* to prompt texts: analyzeTokenEfficiency, optimizePrompt and             *)
(* generatePromptVariations, and analyzeProjectContext to a project        *)
(* directory, whose context the CLI reports.  WebSpec is the script of the *)
(* web page: a page is opened, its visitor changes the task type and the   *)
(* fields of the form while the timeouts of the page run, the share URL is *)
(* copied and opened in a second page.                                     *)
(***************************************************************************)
EXTENDS Naturals, Sequences, FiniteSets, TLC

VARIABLES
    type,          \* the task type tag passed to buildPrompt
    optionsGiven,  \* FALSE: buildPrompt is called without an options argument
    options,       \* the caller's options object (key -> JavaScript value)
    passed,        \* the caller's options object as it was when the call was made
    result,        \* outcome of the last call: returned string or raised error
    pc,            \* "collect": answers are being collected; "node" / "web": called;
                   \* "idle", "analyzed", "optimized", "varied": the optimizer's calls;
                   \* "probed": the project directory was probed; "opening", "open",
                   \* "shared", "reopened": the web page
    basePrompt,    \* the prompt text handed to a function of utils/promptOptimizer.js
    context,       \* the project context argument of optimizePrompt
    out,           \* outcome of the last call of a function of the optimizer
    project,       \* the project directory analyzeProjectContext probes
    currentScaffoldType,  \* the web page: the task type selected
    currentOptions,       \* the web page: the options object, as the pairs
                          \* <<key, value>> in the order the keys were added
    dynamicOptions,       \* the web page: the fields of the form of the task type
                          \* (name -> value and display style)
    universalOptions,     \* the web page: the selects of every task type (name -> value)
    promptContent,        \* the web page: the task type and the options the prompt
                          \* shown was built from by the last updatePrompt()
    timers,               \* the web page: the callbacks of setTimeout not yet run
    clipboard             \* the share URL copied to the clipboard

\* the web page and what it copied
webVars ==
    <<currentScaffoldType, currentOptions, dynamicOptions, universalOptions,
      promptContent, timers, clipboard>>

vars ==
    <<type, optionsGiven, options, passed, result, pc, basePrompt, context, out, project,
      webVars>>

\* what the builder's caller leaves alone
optimizerVars == <<basePrompt, context, out, project>>

\* what the optimizer's calls leave alone
builderVars == <<type, passed, result>>

----------------------------------------------------------------------------
(* Bounds of the model.                                                    *)

\* the largest number of keys the caller puts into the options object
MaxAnswers == 3

\* the largest number of timeouts pending when the visitor of the web page
\* changes the task type
MaxTimers == 2

----------------------------------------------------------------------------
(* JavaScript values: strings, booleans, arrays of strings, undefined.     *)

JsString(s) == [kind |-> "string", str |-> s, items |-> <<>>]
JsBool(b) == [kind |-> "boolean", str |-> IF b THEN "true" ELSE "false", items |-> <<>>]
JsArray(xs) == [kind |-> "array", str |-> "", items |-> xs]
Undefined == [kind |-> "undefined", str |-> "undefined", items |-> <<>>]

\* options[key]: undefined for a key the object does not hold
Get(o, key) == IF key \in DOMAIN o THEN o[key] ELSE Undefined

\* ToBoolean: what `if (v)`, `v && ...` and `v || ...` test
Truthy(v) ==
    CASE v.kind = "string" -> v.str # ""
      [] v.kind = "boolean" -> v.str = "true"
      [] v.kind = "array" -> TRUE
      [] OTHER -> FALSE

\* v === 'literal'
StrictEq(v, s) == v.kind = "string" /\ v.str = s

\* v === true
IsTrue(v) == v.kind = "boolean" /\ v.str = "true"

\* whether v.trim / v.toLowerCase is a function (only strings have them)
HasStringMethods(v) == v.kind = "string"

RECURSIVE Join(_, _)
\* Array.prototype.join on an array of strings
Join(xs, sep) ==
    IF Len(xs) = 0 THEN ""
    ELSE IF Len(xs) = 1 THEN xs[1]
    ELSE xs[1] \o sep \o Join(Tail(xs), sep)

\* ToString(v): a value inside a template literal, as a replacement string, or
\* as a property key
JsToString(v) == IF v.kind = "array" THEN Join(v.items, ",") ELSE v.str

----------------------------------------------------------------------------
(* Strings.                                                                *)

\* first index >= i at which pat occurs in s, 0 when there is none
IndexFrom(s, pat, i) ==
    LET hits == {j \in i..(Len(s) + 1 - Len(pat)) : SubSeq(s, j, j + Len(pat) - 1) = pat}
    IN  IF hits = {} THEN 0 ELSE CHOOSE j \in hits : \A h \in hits : j <= h

\* String.prototype.includes
Includes(s, pat) == IndexFrom(s, pat, 1) # 0

StartsWith(s, pat) == Len(pat) <= Len(s) /\ SubSeq(s, 1, Len(pat)) = pat

EndsWith(s, pat) ==
    Len(pat) <= Len(s) /\ SubSeq(s, Len(s) - Len(pat) + 1, Len(s)) = pat

RECURSIVE CountFrom(_, _, _)
\* number of non-overlapping occurrences of pat in s from index i on
CountFrom(s, pat, i) ==
    LET j == IndexFrom(s, pat, i)
    IN  IF j = 0 THEN 0 ELSE 1 + CountFrom(s, pat, j + Len(pat))

Occurrences(s, pat) == CountFrom(s, pat, 1)

\* String.prototype.replace with a string pattern: the first occurrence only
ReplaceFirst(s, pat, rep) ==
    LET i == IndexFrom(s, pat, 1)
    IN  IF i = 0 THEN s
        ELSE SubSeq(s, 1, i - 1) \o rep \o SubSeq(s, i + Len(pat), Len(s))

RECURSIVE ReplaceAllFrom(_, _, _, _)
ReplaceAllFrom(s, pat, rep, i) ==
    LET j == IndexFrom(s, pat, i)
    IN  IF j = 0 THEN s
        ELSE ReplaceAllFrom(
                 SubSeq(s, 1, j - 1) \o rep \o SubSeq(s, j + Len(pat), Len(s)),
                 pat, rep, j + Len(rep))

\* String.prototype.replace with new RegExp('\\{\\{key\\}\\}', 'g'): every
\* occurrence of the literal text, left to right, the inserted text not rescanned
ReplaceAll(s, pat, rep) == ReplaceAllFrom(s, pat, rep, 1)

WordChars == "abcdefghijklmnopqrstuvwxyzABCDEFGHIJKLMNOPQRSTUVWXYZ0123456789_"

\* the character class \w
IsWordChar(c) == Includes(WordChars, c)

RECURSIVE WordEnd(_, _)
\* index just past the run of \w characters of s that starts at i
WordEnd(s, i) ==
    IF i <= Len(s) /\ IsWordChar(SubSeq(s, i, i)) THEN WordEnd(s, i + 1) ELSE i

RECURSIVE ReplacePlaceholdersFrom(_, _, _)
ReplacePlaceholdersFrom(s, rep, i) ==
    LET j == IndexFrom(s, "{{", i)
    IN  IF j = 0 THEN s
        ELSE LET e == WordEnd(s, j + 2)
             IN  IF e > j + 2 /\ e + 1 <= Len(s) /\ SubSeq(s, e, e + 1) = "}}"
                 THEN ReplacePlaceholdersFrom(
                          SubSeq(s, 1, j - 1) \o rep \o SubSeq(s, e + 2, Len(s)),
                          rep, j + Len(rep))
                 ELSE ReplacePlaceholdersFrom(s, rep, j + 1)

\* prompt.replace(/\{\{\w+\}\}/g, rep)
ReplacePlaceholders(s, rep) == ReplacePlaceholdersFrom(s, rep, 1)

RECURSIVE TrimStart(_)
TrimStart(s) ==
    IF Len(s) > 0 /\ SubSeq(s, 1, 1) = " " THEN TrimStart(SubSeq(s, 2, Len(s))) ELSE s

RECURSIVE TrimEnd(_)
TrimEnd(s) ==
    IF Len(s) > 0 /\ SubSeq(s, Len(s), Len(s)) = " "
    THEN TrimEnd(SubSeq(s, 1, Len(s) - 1)) ELSE s

\* String.prototype.trim (the model's only white space is the blank)
Trim(s) == TrimEnd(TrimStart(s))

UpperCase == "ABCDEFGHIJKLMNOPQRSTUVWXYZ"
LowerCase == "abcdefghijklmnopqrstuvwxyz"

RECURSIVE ToLowerCase(_)
\* String.prototype.toLowerCase
ToLowerCase(s) ==
    IF Len(s) = 0 THEN ""
    ELSE LET c == SubSeq(s, 1, 1)
             i == IndexFrom(UpperCase, c, 1)
         IN  (IF i = 0 THEN c ELSE SubSeq(LowerCase, i, i))
                 \o ToLowerCase(SubSeq(s, 2, Len(s)))

----------------------------------------------------------------------------
(* utils/promptBuilder.js: templates and dictionaries (Node side).         *)

PROMPT_TEMPLATES ==
    [init |->
        [base |-> "Create {{projectType}} project with {{framework}}",
         withProjectName |->
             "Create {{projectType}} project called '{{projectName}}' with {{framework}}",
         constraints |->
             [minimal |-> "Bare minimum setup",
              standard |-> "Common dev tools included",
              full |-> "Complete dev environment"],
         structure |->
             [flat |-> "Single directory",
              layered |-> "Organized folders",
              modular |-> "Feature-based structure",
              monorepo |-> "Monorepo with multiple packages"],
         frameworks |->
             [react |-> "Follow React 18+ patterns, hooks, and modern practices",
              vue |-> "Use Vue 3 Composition API and TypeScript support",
              angular |-> "Follow Angular 15+ conventions with standalone components",
              svelte |-> "Use SvelteKit patterns and TypeScript configuration",
              next |-> "Configure Next.js 14+ with App Router",
              nuxt |-> "Set up Nuxt 3 with auto-imports and TypeScript",
              express |-> "Modern Express.js with middleware patterns",
              fastify |-> "High-performance Fastify server setup",
              nest |-> "NestJS with decorators and dependency injection",
              electron |-> "Electron with security best practices",
              tauri |-> "Tauri with Rust backend integration",
              astro |-> "Astro with island architecture",
              gatsby |-> "Gatsby with GraphQL data layer",
              vite |-> "Vite build configuration and plugins",
              webpack |-> "Modern webpack configuration",
              esbuild |-> "ESBuild bundler setup",
              rollup |-> "Rollup configuration for libraries"]],
     feature |->
        [base |-> "Implement {{feature}} as {{pattern}}",
         patterns |->
             [function |-> "pure functions with TypeScript",
              class |-> "class-based module with encapsulation",
              hook |-> "React hook with proper dependencies",
              service |-> "service layer with dependency injection",
              component |-> "reusable component with props interface",
              utility |-> "utility function with comprehensive tests",
              middleware |-> "middleware with error handling",
              api |-> "RESTful API endpoint with validation"],
         scope |->
             [component |-> "single component with tests",
              module |-> "complete module with documentation",
              feature |-> "full feature set with integration tests",
              system |-> "system-wide implementation with monitoring"]],
     architecture |->
        [base |-> "Design {{feature}} using {{pattern}} pattern",
         patterns |->
             [mvc |-> "MVC with clear separation of concerns",
              layered |-> "layered architecture with dependency inversion",
              hexagonal |-> "hexagonal/ports-adapters with clean boundaries",
              microservice |-> "microservice with proper communication patterns",
              eventdriven |-> "event-driven architecture with message queues",
              cqrs |-> "CQRS with command and query separation",
              ddd |-> "domain-driven design with bounded contexts"]],
     testing |->
        [base |-> "Write {{testType}} tests for {{module}} using {{library}}",
         types |->
             [unit |-> "unit tests with mocking",
              integration |-> "integration tests with real dependencies",
              e2e |-> "end-to-end tests with user scenarios",
              performance |-> "performance tests with benchmarks",
              security |-> "security tests with vulnerability scanning"],
         libraries |->
             [jest |-> "Jest with TypeScript support",
              vitest |-> "Vitest with fast execution",
              cypress |-> "Cypress for E2E testing",
              playwright |-> "Playwright for cross-browser testing",
              rtl |-> "React Testing Library for component tests"]],
     docs |->
        [base |-> "Generate {{docType}} documentation for {{projectName}}",
         types |->
             [api |-> "OpenAPI/Swagger API documentation",
              user |-> "comprehensive user guide with examples",
              dev |-> "developer setup with troubleshooting",
              arch |-> "architecture overview with diagrams",
              changelog |-> "structured changelog with versioning",
              contributing |-> "contribution guidelines with workflows",
              security |-> "security documentation with best practices",
              performance |-> "performance guide with optimization strategies"]],
     fix |->
        [base |-> "Fix {{issue}} in {{component}} using {{approach}}",
         approaches |->
             [debug |-> "systematic debugging with logging",
              refactor |-> "code refactoring with backward compatibility",
              optimize |-> "performance optimization with benchmarks",
              patch |-> "minimal patch fix with regression tests",
              rewrite |-> "partial rewrite with migration strategy",
              security |-> "security fix with vulnerability assessment"],
         priorities |->
             [critical |-> "critical priority - immediate fix required",
              high |-> "high priority - fix within 24 hours",
              medium |-> "medium priority - address in next sprint",
              low |-> "low priority - backlog item"],
         categories |->
             [performance |-> "performance issue affecting user experience",
              security |-> "security vulnerability requiring immediate attention",
              functionality |-> "functionality bug breaking expected behavior",
              ui |-> "UI/UX issue affecting user interaction",
              integration |-> "integration issue with external services",
              compatibility |-> "compatibility issue across environments"]]]

OUTPUT_FORMATS ==
    [code |-> "Code only, no explanations",
     commented |-> "Code with inline comments",
     guided |-> "Code with brief setup steps",
     detailed |-> "Code with comprehensive explanation"]

COMPLEXITY_LEVELS ==
    [simple |-> "Basic implementation, <50 lines",
     medium |-> "Standard features, <200 lines",
     complex |-> "Full implementation, optimized"]

styles ==
    [functional |-> "Functional programming with immutability",
     oop |-> "Object-oriented with SOLID principles",
     minimal |-> "Minimal, clean code with clear naming"]

structures ==
    [single |-> "Single file solution with clear sections",
     split |-> "Separate files by concern with barrel exports",
     modular |-> "Modular file structure with index files"]

deps ==
    [none |-> "No external dependencies - pure implementation",
     minimal |-> "Minimal dependencies only - prefer built-ins",
     standard |-> "Common libraries allowed - focus on stability"]

formatSpecs ==
    [markdown |-> "Markdown format with proper headers and syntax",
     text |-> "Plain text format, well-structured",
     html |-> "HTML format with semantic markup",
     json |-> "JSON format for API specifications",
     yaml |-> "YAML format for structured configuration",
     rst |-> "reStructuredText format with proper directives"]

detailLevels ==
    [minimal |-> "Minimal documentation - key points and essential info only",
     standard |-> "Standard documentation - comprehensive coverage",
     detailed |-> "Detailed documentation with in-depth explanations and examples",
     tutorial |-> "Tutorial-style documentation with step-by-step guidance"]

diagramTypeNames ==
    [flowchart |-> "flow charts",
     architecture |-> "architecture diagrams",
     database |-> "database schemas",
     sequence |-> "sequence diagrams",
     class |-> "class diagrams",
     network |-> "network diagrams",
     gantt |-> "gantt charts",
     mindmap |-> "mindmaps"]

\* the six task types: the own properties of PROMPT_TEMPLATES
KnownTypes == DOMAIN PROMPT_TEMPLATES

\* names PROMPT_TEMPLATES inherits from Object.prototype, as far as the
\* model's type tags go: PROMPT_TEMPLATES['constructor'] is the function
\* Object, a truthy value without a `base` property
InheritedNames == {"constructor"}

\* !!PROMPT_TEMPLATES[type]
TemplateTruthy(t) == t \in KnownTypes \/ t \in InheritedNames

UnknownType == "Unknown prompt type."
Clarification == " Ask user to clarify if necessary."

----------------------------------------------------------------------------
(* Outcomes of a call, and helpers shared by the two builders.             *)

\* the call returned the string s; o is the caller's options object afterwards
Return(s, o) == [status |-> "return", value |-> s, options |-> o]

\* the call raised a TypeError; o is the caller's options object afterwards
Throw(o) == [status |-> "throw", value |-> "TypeError", options |-> o]

\* v && dict[v]: the own property of dict named by v, all of them non-empty strings
DictHas(dict, v) == Truthy(v) /\ JsToString(v) \in DOMAIN dict

DictGet(dict, v) == dict[JsToString(v)]

\* if (v && dict[v]) constraints.push(dict[v])
PushLookup(cs, dict, v) == IF DictHas(dict, v) THEN Append(cs, DictGet(dict, v)) ELSE cs

\* the keys of seq that the object o holds, in seq's order
KeysIn(seq, o) == SelectSeq(seq, LAMBDA k : k \in DOMAIN o)

----------------------------------------------------------------------------
(* The option keys of each task type: the questions of the CLI in the order *)
(* main() asks them, which is the order in which the answers become keys   *)
(* of the options object (and, for fix, the key category, which            *)
(* buildPrompt reads and the CLI does not ask).                            *)

universalQuestions == <<"outputFormat", "complexity">>

Questions(t) ==
    CASE t = "init" ->
             <<"projectName", "projectType", "framework", "customFramework",
               "packageManager", "structure", "dependencies">> \o universalQuestions
      [] t = "feature" ->
             <<"feature", "pattern", "scope", "codeStyle", "fileStructure">>
                 \o universalQuestions
      [] t = "architecture" -> <<"feature", "pattern">> \o universalQuestions
      [] t = "testing" ->
             <<"module", "testType", "library", "customLibrary", "coverage">>
                 \o universalQuestions
      [] t = "docs" ->
             <<"projectName", "docType", "format", "includeDiagrams", "diagramTypes",
               "diagramTool", "customDiagramTool", "detailLevel", "includeExamples",
               "includeToc">> \o universalQuestions
      [] t = "fix" ->
             <<"issue", "component", "approach", "priority", "errorMessage",
               "category">> \o universalQuestions
      [] OTHER -> universalQuestions

\* Object.keys(options) for an options object filled in question order
ObjectKeys(t, o) == KeysIn(Questions(t), o)

----------------------------------------------------------------------------
(* utils/promptBuilder.js: buildPrompt (Node side).                        *)

\* the custom framework never takes the place of 'other'
CustomFrameworkIgnored(o) == o

\* if (options.framework === 'other' && options.customFramework)
\*     options.framework = options.customFramework;
\* an assignment to the caller's object
CustomFrameworkNode(o) ==
    IF StrictEq(Get(o, "framework"), "other") /\ Truthy(Get(o, "customFramework"))
    THEN [o EXCEPT !["framework"] = o["customFramework"]]
    ELSE o

RECURSIVE SubstituteNode(_, _, _)
\* keys.forEach(key => prompt = prompt.replace(`{{${key}}}`, options[key] || 'default'))
SubstituteNode(prompt, o, keys) ==
    IF keys = <<>> THEN prompt
    ELSE LET key == Head(keys)
             val == IF Truthy(o[key]) THEN JsToString(o[key]) ELSE "default"
         IN  SubstituteNode(ReplaceFirst(prompt, "{{" \o key \o "}}", val), o, Tail(keys))

\* the common clauses with the complexity clause pushed before the output
\* format clause
ComplexityBeforeFormat(t, o) ==
    LET c0 == IF t = "init" /\ "frameworks" \in DOMAIN PROMPT_TEMPLATES[t]
              THEN PushLookup(<<>>, PROMPT_TEMPLATES[t].frameworks, Get(o, "framework"))
              ELSE <<>>
        c1 == PushLookup(c0, COMPLEXITY_LEVELS, Get(o, "complexity"))
        c2 == PushLookup(c1, OUTPUT_FORMATS, Get(o, "outputFormat"))
        c3 == PushLookup(c2, styles, Get(o, "codeStyle"))
        c4 == PushLookup(c3, structures, Get(o, "fileStructure"))
    IN  PushLookup(c4, deps, Get(o, "dependencies"))

\* the clauses collected before the switch: framework (init only), output
\* format, complexity, code style, file structure, dependencies
CommonConstraintsNode(t, o) ==
    LET c0 == IF t = "init" /\ "frameworks" \in DOMAIN PROMPT_TEMPLATES[t]
              THEN PushLookup(<<>>, PROMPT_TEMPLATES[t].frameworks, Get(o, "framework"))
              ELSE <<>>
        c1 == PushLookup(c0, OUTPUT_FORMATS, Get(o, "outputFormat"))
        c2 == PushLookup(c1, COMPLEXITY_LEVELS, Get(o, "complexity"))
        c3 == PushLookup(c2, styles, Get(o, "codeStyle"))
        c4 == PushLookup(c3, structures, Get(o, "fileStructure"))
    IN  PushLookup(c4, deps, Get(o, "dependencies"))

\* a step of the switch: the prompt and the clauses so far, or a raised error
Step(prompt, cs) == [raised |-> FALSE, prompt |-> prompt, constraints |-> cs]
Raised == [raised |-> TRUE, prompt |-> "", constraints |-> <<>>]

\* case 'init'
InitNode(template, prompt, cs, o, keys) ==
    LET userProjectName == Get(o, "projectName")
        pm == Get(o, "packageManager")
        c1 == IF ~Truthy(pm) THEN cs
              ELSE IF StrictEq(pm, "none")
                   THEN Append(cs, "No package manager needed - pure static files")
                   ELSE Append(cs, "Use " \o JsToString(pm) \o " with latest best practices")
        c2 == PushLookup(c1, template.structure, Get(o, "structure"))
    IN  IF Truthy(userProjectName) /\ ~HasStringMethods(userProjectName)
        THEN Raised   \* userProjectName.trim is not a function
        ELSE IF Truthy(userProjectName) /\ Trim(userProjectName.str) # ""
             THEN Step(SubstituteNode(template.withProjectName, o, keys), c2)
             ELSE Step(prompt, c2)

\* case 'feature'
FeatureNode(template, prompt, cs, o) ==
    LET p1 == IF DictHas(template.patterns, Get(o, "pattern"))
              THEN ReplaceFirst(prompt, "{{pattern}}",
                                DictGet(template.patterns, Get(o, "pattern")))
              ELSE prompt
        c1 == IF DictHas(template.scope, Get(o, "scope"))
              THEN Append(cs, "Scope: " \o DictGet(template.scope, Get(o, "scope")))
              ELSE cs
    IN  Step(p1, c1)

\* case 'architecture'
ArchitectureNode(template, prompt, cs, o) ==
    Step(IF DictHas(template.patterns, Get(o, "pattern"))
         THEN ReplaceFirst(prompt, "{{pattern}}",
                           DictGet(template.patterns, Get(o, "pattern")))
         ELSE prompt,
         cs)

\* case 'testing'
TestingNode(template, prompt, cs, o) ==
    LET p1 == IF DictHas(template.types, Get(o, "testType"))
              THEN ReplaceFirst(prompt, "{{testType}}",
                                DictGet(template.types, Get(o, "testType")))
              ELSE prompt
        testingLibrary ==
            IF StrictEq(Get(o, "library"), "Other") /\ Truthy(Get(o, "customLibrary"))
            THEN Get(o, "customLibrary")
            ELSE Get(o, "library")
        lower == JsString(ToLowerCase(testingLibrary.str))
        c1 == IF ~Truthy(testingLibrary) THEN cs
              ELSE IF "libraries" \in DOMAIN template /\ DictHas(template.libraries, lower)
                   THEN Append(cs, DictGet(template.libraries, lower))
                   ELSE Append(cs, "Using " \o JsToString(testingLibrary))
        c2 == IF Truthy(Get(o, "coverage"))
              THEN Append(c1, "Target " \o JsToString(Get(o, "coverage"))
                                  \o "% coverage with meaningful tests")
              ELSE c1
    IN  IF Truthy(testingLibrary) /\ "libraries" \in DOMAIN template
           /\ ~HasStringMethods(testingLibrary)
        THEN Raised   \* testingLibrary.toLowerCase is not a function
        ELSE Step(p1, c2)

RECURSIVE DiagramNames(_)
\* diagramTypes.map(type => diagramTypeNames[type] || type)
DiagramNames(types) ==
    IF types = <<>> THEN <<>>
    ELSE <<IF Head(types) \in DOMAIN diagramTypeNames
           THEN diagramTypeNames[Head(types)] ELSE Head(types)>>
             \o DiagramNames(Tail(types))

\* options.flag && (options.flag === true || options.flag === 'true')
Checked(v) == Truthy(v) /\ (IsTrue(v) \/ StrictEq(v, "true"))

\* the diagram clause of case 'docs'; defaultTypes is what an absent
\* diagramTypes stands for, arrays tells whether Array.isArray is consulted
DiagramClause(o, defaultTypes, arrays) ==
    LET tool == Get(o, "diagramTool")
        diagramTool ==
            IF StrictEq(tool, "other") /\ Truthy(Get(o, "customDiagramTool"))
            THEN JsToString(Get(o, "customDiagramTool"))
            ELSE IF Truthy(tool) THEN JsToString(tool) ELSE "mermaid"
        dt == Get(o, "diagramTypes")
        diagramTypes ==
            IF arrays /\ dt.kind = "array" THEN dt.items
            ELSE IF Truthy(dt) THEN <<JsToString(dt)>>
            ELSE defaultTypes
    IN  "Include " \o Join(DiagramNames(diagramTypes), ", ")
            \o " using " \o diagramTool \o " syntax"

\* the clauses of case 'docs': format, detail level, diagrams, examples, contents
DocsConstraints(cs, o, defaultTypes, arrays) ==
    LET c1 == PushLookup(cs, formatSpecs, Get(o, "format"))
        c2 == PushLookup(c1, detailLevels, Get(o, "detailLevel"))
        c3 == IF Checked(Get(o, "includeDiagrams"))
              THEN Append(c2, DiagramClause(o, defaultTypes, arrays)) ELSE c2
        c4 == IF Checked(Get(o, "includeExamples"))
              THEN Append(c3, "Include practical code examples and snippets") ELSE c3
    IN  IF Checked(Get(o, "includeToc"))
        THEN Append(c4, "Generate table of contents with proper navigation") ELSE c4

\* case 'docs'
DocsNode(template, prompt, cs, o) ==
    Step(IF DictHas(template.types, Get(o, "docType"))
         THEN ReplaceFirst(prompt, "{{docType}}", DictGet(template.types, Get(o, "docType")))
         ELSE prompt,
         DocsConstraints(cs, o, <<"flowchart", "architecture">>, TRUE))

\* case 'fix'
FixNode(template, prompt, cs, o) ==
    LET p1 == IF DictHas(template.approaches, Get(o, "approach"))
              THEN ReplaceFirst(prompt, "{{approach}}",
                                DictGet(template.approaches, Get(o, "approach")))
              ELSE prompt
        c1 == IF DictHas(template.priorities, Get(o, "priority"))
              THEN Append(cs, "Priority: " \o DictGet(template.priorities, Get(o, "priority")))
              ELSE cs
        c2 == IF Truthy(Get(o, "errorMessage"))
              THEN Append(c1, "Error context: \"" \o JsToString(Get(o, "errorMessage")) \o "\"")
              ELSE c1
        c3 == IF "categories" \in DOMAIN template
                 /\ DictHas(template.categories, Get(o, "category"))
              THEN Append(c2, "Issue type: "
                                  \o DictGet(template.categories, Get(o, "category")))
              ELSE c2
    IN  Step(p1, c3)

\* switch (type) { ... }
SwitchNode(t, prompt, cs, o, keys) ==
    CASE t = "init" -> InitNode(PROMPT_TEMPLATES[t], prompt, cs, o, keys)
      [] t = "feature" -> FeatureNode(PROMPT_TEMPLATES[t], prompt, cs, o)
      [] t = "architecture" -> ArchitectureNode(PROMPT_TEMPLATES[t], prompt, cs, o)
      [] t = "testing" -> TestingNode(PROMPT_TEMPLATES[t], prompt, cs, o)
      [] t = "docs" -> DocsNode(PROMPT_TEMPLATES[t], prompt, cs, o)
      [] t = "fix" -> FixNode(PROMPT_TEMPLATES[t], prompt, cs, o)
      [] OTHER -> Step(prompt, cs)

\* the clause appended without the constraints.length > 0 test
AppendConstraintsUnguarded(prompt, cs) ==
    prompt \o ". Constraints: " \o Join(cs, ", ") \o "."

\* if (constraints.length > 0) prompt += `. Constraints: ${constraints.join(', ')}.`;
AppendConstraints(prompt, cs) ==
    IF Len(cs) > 0 THEN prompt \o ". Constraints: " \o Join(cs, ", ") \o "." ELSE prompt

\* the sentence appended only when no constraints clause was emitted
AppendClarificationUnlessConstrained(prompt) ==
    IF Includes(prompt, ". Constraints: ") THEN prompt ELSE prompt \o Clarification

\* prompt += ' Ask user to clarify if necessary.';
AppendClarification(prompt) == prompt \o Clarification

\* buildPrompt(type, options) of utils/promptBuilder.js; given = FALSE when
\* the options argument is missing, o is the caller's options object
buildPromptNode(t, given, o) ==
    IF ~TemplateTruthy(t) THEN Return(UnknownType, o)
    ELSE IF ~given THEN Throw(o)   \* options.framework of undefined
    ELSE LET o1 == CustomFrameworkNode(o)
             keys == ObjectKeys(t, o1)
             cs == CommonConstraintsNode(t, o1)
         IN  IF t \notin KnownTypes
             THEN \* template.base is undefined: prompt.replace raises for the
                  \* first key, and without keys "undefined" is concatenated
                  IF keys # <<>> THEN Throw(o1)
                  ELSE Return(AppendClarification(AppendConstraints("undefined", cs)), o1)
             ELSE LET prompt == SubstituteNode(PROMPT_TEMPLATES[t].base, o1, keys)
                      sw == SwitchNode(t, prompt, cs, o1, keys)
                  IN  IF sw.raised THEN Throw(o1)
                      ELSE Return(AppendClarification(
                                      AppendConstraints(sw.prompt, sw.constraints)), o1)

----------------------------------------------------------------------------
(* web/app.js: templates and dictionaries (browser side).                  *)

WEB_PROMPT_TEMPLATES ==
    [init |->
        [base |-> "Create {{projectType}} project with {{framework}}",
         withProjectName |->
             "Create {{projectType}} project called '{{projectName}}' with {{framework}}",
         constraints |->
             [minimal |-> "Bare minimum setup",
              standard |-> "Common dev tools included",
              full |-> "Complete dev environment"],
         structure |->
             [flat |-> "Single directory",
              layered |-> "Organized folders",
              modular |-> "Feature-based structure",
              monorepo |-> "Monorepo with multiple packages"]],
     feature |->
        [base |-> "Implement {{feature}} as {{pattern}}",
         patterns |->
             [function |-> "pure functions",
              class |-> "class-based module",
              hook |-> "React hook",
              service |-> "service layer"],
         scope |->
             [component |-> "single component",
              module |-> "complete module",
              feature |-> "full feature set"]],
     architecture |->
        [base |-> "Design {{feature}} using {{pattern}} pattern",
         patterns |->
             [mvc |-> "MVC",
              layered |-> "layered architecture",
              hexagonal |-> "hexagonal/ports-adapters",
              microservice |-> "microservice"]],
     testing |->
        [base |-> "Write {{testType}} tests for {{module}} using {{library}}",
         types |->
             [unit |-> "unit",
              integration |-> "integration",
              e2e |-> "end-to-end"]],
     docs |->
        [base |-> "Generate {{docType}} documentation for {{projectName}}",
         types |->
             [api |-> "API documentation",
              user |-> "user guide",
              dev |-> "developer setup",
              arch |-> "architecture overview",
              changelog |-> "changelog",
              contributing |-> "contributing guidelines",
              security |-> "security documentation",
              performance |-> "performance guide"]],
     fix |->
        [base |-> "Fix {{issue}} in {{component}} using {{approach}}",
         approaches |->
             [debug |-> "systematic debugging",
              refactor |-> "code refactoring",
              optimize |-> "performance optimization",
              patch |-> "minimal patch fix",
              rewrite |-> "partial rewrite"],
         priorities |->
             [critical |-> "critical priority",
              high |-> "high priority",
              medium |-> "medium priority",
              low |-> "low priority"]]]

WEB_OUTPUT_FORMATS ==
    [code |-> "Code only, no explanations, no markdown",
     commented |-> "Code with inline comments",
     guided |-> "Code with brief setup steps",
     detailed |-> "Code with comprehensive explanation"]

WEB_COMPLEXITY_LEVELS ==
    [simple |-> "Basic implementation, <50 lines",
     medium |-> "Standard features, <200 lines",
     complex |-> "Full implementation, optimized"]

webStyles ==
    [functional |-> "Functional programming style",
     oop |-> "Object-oriented approach",
     minimal |-> "Minimal, clean code"]

webStructures ==
    [single |-> "Single file solution",
     split |-> "Separate files by concern",
     modular |-> "Modular file structure"]

webDeps ==
    [none |-> "No external dependencies",
     minimal |-> "Minimal dependencies only",
     standard |-> "Common libraries allowed"]

\* the per-key fallback table, in the order of its keys
fallbackKeys ==
    <<"projectType", "framework", "feature", "pattern", "module", "testType",
      "library", "docType", "projectName", "issue", "component", "approach">>

fallbackValues ==
    [projectType |-> JsString("node"),
     framework |-> JsString("vanilla"),
     feature |-> JsString("component"),
     pattern |-> JsString("function"),
     module |-> JsString("service"),
     testType |-> JsString("unit"),
     library |-> JsString("Jest"),
     docType |-> JsString("api"),
     projectName |-> JsString("project"),
     issue |-> JsString("bug"),
     component |-> JsString("component"),
     approach |-> JsString("debug")]

----------------------------------------------------------------------------
(* web/app.js: buildPrompt (browser side).                                 *)

\* const completeOptions = { ...fallbackValues, ...options }: a fresh object
\* (spreading a missing options argument adds nothing)
Merge(o) == o @@ fallbackValues

\* Object.keys(completeOptions): the fallback keys, then the caller's other keys
CompleteKeys(t, o) ==
    fallbackKeys \o SelectSeq(ObjectKeys(t, o), LAMBDA k : k \notin DOMAIN fallbackValues)

\* if (completeOptions.framework === 'other' && completeOptions.customFramework)
\*     completeOptions.framework = completeOptions.customFramework;
CustomFrameworkWeb(co) ==
    IF StrictEq(Get(co, "framework"), "other") /\ Truthy(Get(co, "customFramework"))
    THEN [co EXCEPT !["framework"] = co["customFramework"]]
    ELSE co

\* completeOptions[key] || fallbackValues[key] || 'default'
ValueOrFallback(co, key) ==
    IF Truthy(co[key]) THEN JsToString(co[key])
    ELSE IF Truthy(Get(fallbackValues, key)) THEN JsToString(fallbackValues[key])
    ELSE "default"

RECURSIVE SubstituteWeb(_, _, _, _)
\* keys.forEach(key => { if (skipped) return;
\*     prompt = prompt.replace(new RegExp(`\\{\\{${key}\\}\\}`, 'g'), value) })
SubstituteWeb(prompt, co, keys, skipped) ==
    IF keys = <<>> THEN prompt
    ELSE LET key == Head(keys)
             replaced ==
                 IF key \in skipped THEN prompt
                 ELSE ReplaceAll(prompt, "{{" \o key \o "}}", ValueOrFallback(co, key))
         IN  \* an empty prompt holds no placeholder for the remaining keys
             IF replaced = "" THEN "" ELSE SubstituteWeb(replaced, co, Tail(keys), skipped)

\* the keys the first substitution pass leaves to the switch statement
SkippedKeys(t) ==
    CASE t = "docs" -> {"docType"}
      [] t = "init" -> {"projectName"}
      [] OTHER -> {}

\* the clauses collected before the switch: output format, complexity, code
\* style, file structure, dependencies
CommonConstraintsWeb(co) ==
    LET c1 == PushLookup(<<>>, WEB_OUTPUT_FORMATS, Get(co, "outputFormat"))
        c2 == PushLookup(c1, WEB_COMPLEXITY_LEVELS, Get(co, "complexity"))
        c3 == PushLookup(c2, webStyles, Get(co, "codeStyle"))
        c4 == PushLookup(c3, webStructures, Get(co, "fileStructure"))
    IN  PushLookup(c4, webDeps, Get(co, "dependencies"))

\* case 'init': options is the caller's unmerged object
InitWeb(template, prompt, cs, given, o, co, keys) ==
    LET userProjectName == Get(o, "projectName")
        pm == Get(co, "packageManager")
        c1 == IF ~Truthy(pm) THEN cs
              ELSE IF StrictEq(pm, "none")
                   THEN Append(cs, "No package manager needed - pure static files")
                   ELSE Append(cs, "Use " \o JsToString(pm) \o " with latest best practices")
        c2 == PushLookup(c1, template.structure, Get(co, "structure"))
    IN  IF ~given
        THEN Raised   \* options.projectName of undefined
        ELSE IF Truthy(userProjectName) /\ ~HasStringMethods(userProjectName)
             THEN Raised   \* userProjectName.trim is not a function
             ELSE IF Truthy(userProjectName) /\ Trim(userProjectName.str) # ""
                  THEN Step(SubstituteWeb(template.withProjectName, co, keys, {}), c2)
                  ELSE Step(prompt, c2)

\* case 'feature'
FeatureWeb(template, prompt, cs, co) ==
    LET p1 == IF DictHas(template.patterns, Get(co, "pattern"))
              THEN ReplaceAll(prompt, "{{pattern}}",
                              DictGet(template.patterns, Get(co, "pattern")))
              ELSE prompt
        c1 == IF DictHas(template.scope, Get(co, "scope"))
              THEN Append(cs, "Scope: " \o DictGet(template.scope, Get(co, "scope")))
              ELSE cs
    IN  Step(p1, c1)

\* case 'architecture'
ArchitectureWeb(template, prompt, cs, co) ==
    Step(IF DictHas(template.patterns, Get(co, "pattern"))
         THEN ReplaceAll(prompt, "{{pattern}}",
                         DictGet(template.patterns, Get(co, "pattern")))
         ELSE prompt,
         cs)

\* case 'testing': the statements of the Node side, with a global replace and
\* a template that has no `libraries` dictionary
TestingWeb(template, prompt, cs, co) ==
    LET p1 == IF DictHas(template.types, Get(co, "testType"))
              THEN ReplaceAll(prompt, "{{testType}}",
                              DictGet(template.types, Get(co, "testType")))
              ELSE prompt
        testingLibrary ==
            IF StrictEq(Get(co, "library"), "Other") /\ Truthy(Get(co, "customLibrary"))
            THEN Get(co, "customLibrary")
            ELSE Get(co, "library")
        lower == JsString(ToLowerCase(testingLibrary.str))
        c1 == IF ~Truthy(testingLibrary) THEN cs
              ELSE IF "libraries" \in DOMAIN template /\ DictHas(template.libraries, lower)
                   THEN Append(cs, DictGet(template.libraries, lower))
                   ELSE Append(cs, "Using " \o JsToString(testingLibrary))
        c2 == IF Truthy(Get(co, "coverage"))
              THEN Append(c1, "Target " \o JsToString(Get(co, "coverage"))
                                  \o "% coverage with meaningful tests")
              ELSE c1
    IN  IF Truthy(testingLibrary) /\ "libraries" \in DOMAIN template
           /\ ~HasStringMethods(testingLibrary)
        THEN Raised
        ELSE Step(p1, c2)

\* case 'docs'
DocsWeb(template, prompt, cs, co) ==
    Step(IF DictHas(template.types, Get(co, "docType"))
         THEN ReplaceAll(prompt, "{{docType}}", DictGet(template.types, Get(co, "docType")))
         ELSE prompt,
         DocsConstraints(cs, co, <<"flowchart">>, FALSE))

\* case 'fix'
FixWeb(template, prompt, cs, co) ==
    LET p1 == IF DictHas(template.approaches, Get(co, "approach"))
              THEN ReplaceAll(prompt, "{{approach}}",
                              DictGet(template.approaches, Get(co, "approach")))
              ELSE prompt
        c1 == IF DictHas(template.priorities, Get(co, "priority"))
              THEN Append(cs, "Priority: " \o DictGet(template.priorities, Get(co, "priority")))
              ELSE cs
        c2 == IF Truthy(Get(co, "errorMessage"))
              THEN Append(c1, "Error: \"" \o JsToString(Get(co, "errorMessage")) \o "\"")
              ELSE c1
    IN  Step(p1, c2)

\* switch (type) { ... }
SwitchWeb(t, prompt, cs, given, o, co, keys) ==
    CASE t = "init" -> InitWeb(WEB_PROMPT_TEMPLATES[t], prompt, cs, given, o, co, keys)
      [] t = "feature" -> FeatureWeb(WEB_PROMPT_TEMPLATES[t], prompt, cs, co)
      [] t = "architecture" -> ArchitectureWeb(WEB_PROMPT_TEMPLATES[t], prompt, cs, co)
      [] t = "testing" -> TestingWeb(WEB_PROMPT_TEMPLATES[t], prompt, cs, co)
      [] t = "docs" -> DocsWeb(WEB_PROMPT_TEMPLATES[t], prompt, cs, co)
      [] t = "fix" -> FixWeb(WEB_PROMPT_TEMPLATES[t], prompt, cs, co)
      [] OTHER -> Step(prompt, cs)

\* prompt = prompt.replace(/\{\{\w+\}\}/g, 'component');
FinalCleanup(prompt) == ReplacePlaceholders(prompt, "component")

\* buildPrompt(type, options) of web/app.js; given = FALSE when the options
\* argument is missing, o is the caller's options object
buildPromptWeb(t, given, o) ==
    IF ~TemplateTruthy(t) THEN Return(UnknownType, o)
    ELSE IF t \notin KnownTypes
    THEN Throw(o)   \* template.base is undefined: prompt.replace raises for the first key
    ELSE LET co == CustomFrameworkWeb(Merge(o))
             keys == CompleteKeys(t, o)
             prompt == SubstituteWeb(WEB_PROMPT_TEMPLATES[t].base, co, keys, SkippedKeys(t))
             sw == SwitchWeb(t, prompt, CommonConstraintsWeb(co), given, o, co, keys)
         IN  IF sw.raised THEN Throw(o)
             ELSE Return(AppendClarification(
                             AppendConstraints(FinalCleanup(sw.prompt), sw.constraints)), o)

----------------------------------------------------------------------------
(* The callers: a task type tag is chosen, answers are collected into the  *)
(* options object, and one of the two builders is called with them.        *)

\* the six known tags, an unknown tag, and a name inherited from Object.prototype
TypeTags == KnownTypes \cup {"deploy"} \cup InheritedNames

Strings(S) == {JsString(x) : x \in S}

\* the values an answer to question k of task type t takes in the model:
\* tags of the select lists, free text, the blank string, non-strings
Choices(t, k) ==
    CASE k = "outputFormat" -> Strings({"code", "detailed"})
      [] k = "complexity" -> Strings({"simple"})
      [] k = "projectName" /\ t = "init" ->
             Strings({"shop", "", "  "}) \cup {JsBool(TRUE)}
      [] k = "projectName" /\ t = "docs" -> Strings({"gateway", ""}) \cup {JsBool(TRUE)}
      [] k = "projectType" -> Strings({"browser", ""})
      [] k = "framework" -> Strings({"react", "other", ""})
      [] k = "customFramework" -> Strings({"Deno", "Next.js", ""})
      [] k = "packageManager" -> Strings({"pnpm", "none"})
      [] k = "structure" -> Strings({"layered"})
      [] k = "dependencies" -> Strings({"minimal"})
      [] k = "feature" -> Strings({"login", ""})
      [] k = "pattern" /\ t = "feature" -> Strings({"hook", "observer", ""})
      [] k = "pattern" /\ t = "architecture" -> Strings({"mvc", ""})
      [] k = "scope" -> Strings({"module"})
      [] k = "codeStyle" -> Strings({"functional"})
      [] k = "fileStructure" -> Strings({"split"})
      [] k = "module" -> Strings({"cart", ""})
      [] k = "testType" -> Strings({"e2e", ""})
      [] k = "library" -> Strings({"Vitest", "Mocha", "Other", ""}) \cup {JsBool(TRUE)}
      [] k = "customLibrary" -> Strings({"uvu", ""})
      [] k = "coverage" -> Strings({"90"})
      [] k = "docType" -> Strings({"user", ""})
      [] k = "format" -> Strings({"markdown"})
      [] k = "includeDiagrams" -> {JsBool(TRUE), JsBool(FALSE), JsString("true")}
      [] k = "diagramTypes" -> {JsArray(<<"sequence", "database">>), JsString("class")}
      [] k = "diagramTool" -> Strings({"plantuml", "other"})
      [] k = "customDiagramTool" -> Strings({"d2"})
      [] k = "detailLevel" -> Strings({"tutorial"})
      [] k = "includeExamples" -> {JsBool(TRUE)}
      [] k = "includeToc" -> {JsBool(TRUE)}
      [] k = "issue" -> Strings({"crash", ""})
      [] k = "component" -> Strings({"parser"})
      [] k = "approach" -> Strings({"patch", ""})
      [] k = "priority" -> Strings({"high"})
      [] k = "errorMessage" -> Strings({"ENOENT"})
      [] k = "category" -> Strings({"security"})
      [] OTHER -> {}

\* let options = {}
EmptyObject == [k \in {} |-> Undefined]

NoResult == [status |-> "none", value |-> ""]

\* optimizePrompt(basePrompt, options): the context argument is not passed
NoContext == [kind |-> "undefined", facts |-> EmptyObject]

\* no function of the optimizer has been called
NoOutput == [status |-> "none"]

\* no web page is open
NoPage ==
    /\ currentScaffoldType = "init"
    /\ currentOptions = <<>>
    /\ dynamicOptions = <<>>
    /\ universalOptions = <<>>
    /\ promptContent = [type |-> "", allOptions |-> <<>>]
    /\ timers = <<>>
    /\ clipboard = ""

\* a manifest that does not exist
NoManifest == [kind |-> "absent", pkg |-> EmptyObject]

\* an empty directory
NoProject == [manifest |-> NoManifest, files |-> {}]

Range(seq) == {seq[i] : i \in DOMAIN seq}

Init ==
    /\ type \in TypeTags
    /\ optionsGiven \in BOOLEAN
    /\ options = EmptyObject
    /\ passed = EmptyObject
    /\ result = NoResult
    /\ pc = "collect"
    /\ basePrompt = ""
    /\ context = NoContext
    /\ out = NoOutput
    /\ project = NoProject
    /\ NoPage

\* one more answer becomes a key of the options object
Answer(k, v) ==
    /\ pc = "collect"
    /\ optionsGiven
    /\ k \notin DOMAIN options
    /\ Cardinality(DOMAIN options) < MaxAnswers
    /\ options' = options @@ (k :> v)
    /\ UNCHANGED <<type, optionsGiven, passed, result, pc>>
    /\ UNCHANGED optimizerVars
    /\ UNCHANGED webVars

\* const basePrompt = buildPrompt(type, options), the Node builder
CallNode ==
    /\ pc = "collect"
    /\ LET r == buildPromptNode(type, optionsGiven, options)
       IN  /\ result' = [status |-> r.status, value |-> r.value]
           /\ options' = r.options
    /\ passed' = options
    /\ pc' = "node"
    /\ UNCHANGED <<type, optionsGiven>>
    /\ UNCHANGED optimizerVars
    /\ UNCHANGED webVars

\* basePrompt = CodePrompt.buildPrompt(type, options), the browser builder
CallWeb ==
    /\ pc = "collect"
    /\ LET r == buildPromptWeb(type, optionsGiven, options)
       IN  /\ result' = [status |-> r.status, value |-> r.value]
           /\ options' = r.options
    /\ passed' = options
    /\ pc' = "web"
    /\ UNCHANGED <<type, optionsGiven>>
    /\ UNCHANGED optimizerVars
    /\ UNCHANGED webVars

Next ==
    \/ \E k \in Range(Questions(type)) : \E v \in Choices(type, k) : Answer(k, v)
    \/ CallNode
    \/ CallWeb

Spec == Init /\ [][Next]_vars

----------------------------------------------------------------------------
(* utils/promptOptimizer.js (the same text is in web/app.js):              *)
(* analyzeTokenEfficiency.                                                 *)

\* Math.floor in the place of Math.ceil
Floor(n, d) == n \div d

\* Math.ceil(n / d) for a length n and a positive d
Ceil(n, d) == (n + d - 1) \div d

\* the thresholds compared with <= in the place of <
EfficiencyInclusive(estimatedTokens) ==
    IF estimatedTokens <= 120 THEN "excellent"
    ELSE IF estimatedTokens <= 220 THEN "good"
    ELSE IF estimatedTokens <= 320 THEN "fair"
    ELSE "verbose"

\* the second and third thresholds tested in the wrong order
EfficiencyMisordered(estimatedTokens) ==
    IF estimatedTokens < 120 THEN "excellent"
    ELSE IF estimatedTokens < 220 THEN "fair"
    ELSE IF estimatedTokens < 320 THEN "good"
    ELSE "verbose"

\* estimatedTokens < 120 ? 'excellent' : estimatedTokens < 220 ? 'good' :
\* estimatedTokens < 320 ? 'fair' : 'verbose'
Efficiency(estimatedTokens) ==
    IF estimatedTokens < 120 THEN "excellent"
    ELSE IF estimatedTokens < 220 THEN "good"
    ELSE IF estimatedTokens < 320 THEN "fair"
    ELSE "verbose"

\* prompt.split(',').length
SplitLength(prompt, sep) == Occurrences(prompt, sep) + 1

\* the token advice given from 200 tokens on
RecommendationsFrom200(prompt, estimatedTokens) ==
    LET r1 == IF estimatedTokens >= 200 THEN <<"Consider more specific constraints">> ELSE <<>>
        r2 == IF Includes(prompt, "comprehensive") \/ Includes(prompt, "detailed")
              THEN Append(r1, "Remove verbose qualifiers")
              ELSE r1
    IN  IF SplitLength(prompt, ",") > 5 THEN Append(r2, "Simplify constraint list") ELSE r2

\* analysis.recommendations after the three checks
Recommendations(prompt, estimatedTokens) ==
    LET r1 == IF estimatedTokens > 200 THEN <<"Consider more specific constraints">> ELSE <<>>
        r2 == IF Includes(prompt, "comprehensive") \/ Includes(prompt, "detailed")
              THEN Append(r1, "Remove verbose qualifiers")
              ELSE r1
    IN  IF SplitLength(prompt, ",") > 5 THEN Append(r2, "Simplify constraint list") ELSE r2

\* analyzeTokenEfficiency(prompt)
analyzeTokenEfficiency(prompt) ==
    LET estimatedTokens == Ceil(Len(prompt), 4)
    IN  [estimatedTokens |-> estimatedTokens,
         efficiency |-> Efficiency(estimatedTokens),
         recommendations |-> Recommendations(prompt, estimatedTokens)]

----------------------------------------------------------------------------
(* utils/promptOptimizer.js (the same text is in web/app.js):              *)
(* optimizePrompt.                                                         *)

\* a context argument that is an object with the given facts
ContextObject(facts) == [kind |-> "object", facts |-> facts]

\* optimizePrompt(basePrompt, options, null)
NullContext == [kind |-> "null", facts |-> EmptyObject]

\* the clauses of the Context segment
Optimizations(prompt, facts) ==
    LET pm == Get(facts, "packageManager")
        c1 == IF Truthy(Get(facts, "hasTypeScript")) /\ ~Includes(prompt, "TypeScript")
              THEN <<"Use TypeScript">>
              ELSE <<>>
        c2 == IF Truthy(Get(facts, "hasReact")) /\ ~Includes(prompt, "React")
              THEN Append(c1, "Follow React patterns")
              ELSE c1
    IN  IF Truthy(pm) /\ ~StrictEq(pm, "npm")
        THEN Append(c2, "Use " \o JsToString(pm))
        ELSE c2

\* switch (options.outputFormat) { case 'code': ... case 'guided': ... }
FormatSavers(outputFormat) ==
    IF StrictEq(outputFormat, "code") THEN <<"Code only, no explanations, no markdown">>
    ELSE IF StrictEq(outputFormat, "commented") THEN <<"Minimal inline comments only">>
    ELSE IF StrictEq(outputFormat, "guided")
         THEN <<"Brief setup steps, no verbose explanations">>
    ELSE <<>>

\* the clauses of the Output segment
TokenSavers(o) ==
    LET t1 == FormatSavers(Get(o, "outputFormat"))
        complexity == Get(o, "complexity")
    IN  IF StrictEq(complexity, "simple") THEN Append(t1, "Essential features only")
        ELSE IF StrictEq(complexity, "medium")
             THEN Append(t1, "Standard implementation, no edge case handling")
        ELSE t1

\* if (list.length > 0) optimizedPrompt += `. ${label}: ${list.join(', ')}`
AppendSegment(prompt, label, list) ==
    IF Len(list) > 0 THEN prompt \o ". " \o label \o ": " \o Join(list, ", ") ELSE prompt

\* the outcome of a call of the optimizer: a returned value or a raised error
Returns(v) == [status |-> "return", value |-> v]
Throws == [status |-> "throw", value |-> "TypeError"]

\* optimizePrompt(basePrompt, options, context = {}); given = FALSE when the
\* options argument is missing
optimizePrompt(prompt, given, o, ctx) ==
    IF ctx.kind = "null" THEN Throws      \* context.hasTypeScript of null
    ELSE IF ~given THEN Throws            \* options.outputFormat of undefined
    ELSE Returns(AppendSegment(AppendSegment(prompt, "Context",
                                             Optimizations(prompt, ctx.facts)),
                               "Output", TokenSavers(o)))

----------------------------------------------------------------------------
(* utils/promptOptimizer.js (the same text is in web/app.js):              *)
(* generatePromptVariations, getFrameworkHints, getTypeHints.               *)

\* getFrameworkHints(framework)
getFrameworkHints(framework) ==
    LET hints ==
            [react |-> "Use React 18+ hooks, proper dependency arrays, and modern patterns",
             vue |-> "Use Vue 3 Composition API, reactive refs, and TypeScript",
             angular |-> "Use Angular 15+ standalone components and signals",
             svelte |-> "Use SvelteKit patterns and stores",
             next |-> "Use Next.js 14+ App Router and Server Components",
             express |-> "Use async/await, proper middleware, and error handling",
             fastify |-> "Use Fastify plugins and schemas for validation",
             nest |-> "Use NestJS decorators, guards, and dependency injection"]
    IN  IF DictHas(hints, framework) THEN DictGet(hints, framework)
        ELSE "Use modern JavaScript/TypeScript patterns"

\* getTypeHints(type)
getTypeHints(t) ==
    LET hints ==
            [init |-> "Include project structure, configuration files, and setup instructions",
             feature |-> "Focus on modularity, testability, and integration with existing code",
             architecture |-> "Emphasize scalability, maintainability, and design patterns",
             testing |-> "Include test data setup, mocking strategies, and coverage reports",
             docs |-> "Use clear examples, API references, and troubleshooting guides",
             fix |-> "Include root cause analysis, prevention strategies, and monitoring"]
    IN  IF DictHas(hints, t) THEN DictGet(hints, t)
        ELSE "Focus on code quality and maintainability"

\* s.split(sep)[0]
FirstPiece(s, sep) ==
    LET i == IndexFrom(s, sep, 1)
    IN  IF i = 0 THEN s ELSE SubSeq(s, 1, i - 1)

\* an entry whose estimate counts characters, the division by 4 left out
VariationInCharacters(name, prompt, description, category, tokens) ==
    [name |-> name, prompt |-> prompt, description |-> description,
     category |-> category, tokens |-> 4 * tokens]

\* one entry of the variations array
Variation(name, prompt, description, category, tokens) ==
    [name |-> name, prompt |-> prompt, description |-> description,
     category |-> category, tokens |-> tokens]

\* the variations array for a clean base prompt, its core action and the hints
Variations(cleanBasePrompt, coreAction, frameworkHints, typeHints) ==
    <<Variation("Ultra Minimal",
                coreAction \o ". Code only, no explanations, no markdown formatting.",
                "Absolute minimum tokens for quick prototyping (~8-12 tokens)",
                "speed",
                Ceil(Len(coreAction) + 35, 4)),
      Variation("Production Ready",
                coreAction
                \o ". Include: error handling, TypeScript types, comprehensive tests, "
                \o "clear documentation, and industry best practices. "
                \o frameworkHints
                \o ". Follow SOLID principles and add security considerations."
                \o " Ask user to clarify if necessary.",
                "Enterprise-grade implementation with full coverage (~45-60 tokens)",
                "quality",
                Ceil(Len(coreAction) + Len(frameworkHints) + 180, 4)),
      Variation("Learning Focused",
                coreAction
                \o ". Provide: step-by-step explanation, inline comments explaining each "
                \o "concept, multiple implementation approaches, common pitfalls to avoid, "
                \o "and links to relevant documentation. "
                \o typeHints
                \o ". Make it educational and beginner-friendly."
                \o " Ask user to clarify if necessary.",
                "Educational with explanations and alternatives (~55-70 tokens)",
                "educational",
                Ceil(Len(coreAction) + Len(typeHints) + 220, 4)),
      Variation("Constraint Heavy",
                cleanBasePrompt
                \o ". Strict requirements: zero external dependencies, maximum 50 lines "
                \o "total, pure functions only, comprehensive error handling with custom "
                \o "error classes, extensive inline documentation, cross-platform "
                \o "compatibility, memory optimization, and performance benchmarks "
                \o "included. Follow functional programming paradigms exclusively."
                \o " Ask user to clarify if necessary.",
                "Maximum constraints and technical requirements (~75-95 tokens)",
                "constrained",
                Ceil(Len(cleanBasePrompt) + 280, 4))>>

\* the Constraint Heavy entry left out when the base prompt is only its
\* core action
generateWithoutBareBase(prompt, given, o) ==
    LET opts == IF given THEN o ELSE EmptyObject
        cleanBasePrompt == ReplaceFirst(prompt, Clarification, "")
        coreAction == FirstPiece(cleanBasePrompt, ".")
        all == Variations(cleanBasePrompt, coreAction,
                          getFrameworkHints(Get(opts, "framework")),
                          getTypeHints(Get(opts, "type")))
    IN  Returns(IF cleanBasePrompt = coreAction THEN SubSeq(all, 1, 3) ELSE all)

\* generatePromptVariations(basePrompt, options = {}); given = FALSE when the
\* options argument is missing
generatePromptVariations(prompt, given, o) ==
    LET opts == IF given THEN o ELSE EmptyObject
        cleanBasePrompt == ReplaceFirst(prompt, Clarification, "")
        coreAction == FirstPiece(cleanBasePrompt, ".")
    IN  Returns(Variations(cleanBasePrompt, coreAction,
                           getFrameworkHints(Get(opts, "framework")),
                           getTypeHints(Get(opts, "type"))))

----------------------------------------------------------------------------
(* utils/promptOptimizer.js: analyzeProjectContext, and the report of the  *)
(* CLI on what it returns.  A project is its package.json (absent, not     *)
(* readable, not JSON, the JSON value null, or an object) and the set of   *)
(* files in its directory.                                                 *)

\* a package.json that parses to an object: its dependency names, its
\* script names, engines.node and main
Manifest(dependencies, devDependencies, scripts, node, main) ==
    [kind |-> "object",
     pkg |-> [dependencies |-> dependencies, devDependencies |-> devDependencies,
              scripts |-> scripts, node |-> node, main |-> main]]

\* a package.json that exists and does not yield an object
BadManifest(kind) == [kind |-> kind, pkg |-> EmptyObject]

\* !!(a || b)
JsOr(a, b) == JsBool(a \/ b)

\* fs.existsSync(path.join(projectPath, name))
ExistsSync(p, name) == name \in p.files

\* the facts read from the parsed package.json and the lock files
ManifestFacts(p) ==
    LET pkg == p.manifest.pkg
    IN  [hasTypeScript |-> JsOr("typescript" \in pkg.dependencies,
                                "typescript" \in pkg.devDependencies),
         hasReact |-> JsOr("react" \in pkg.dependencies, "react" \in pkg.devDependencies),
         hasNode |-> IF Truthy(pkg.node) THEN pkg.node ELSE pkg.main,
         packageManager |->
             IF ExistsSync(p, "pnpm-lock.yaml") THEN JsString("pnpm")
             ELSE IF ExistsSync(p, "yarn.lock") THEN JsString("yarn")
             ELSE JsString("npm"),
         hasLinting |-> JsOr("lint" \in pkg.scripts, "eslint" \in pkg.devDependencies),
         hasFormatting |-> JsOr("format" \in pkg.scripts, "prettier" \in pkg.devDependencies),
         hasTesting |-> JsOr("test" \in pkg.scripts,
                             {"jest", "vitest"} \cap pkg.devDependencies # {})]

\* the facts read from the configuration files
FileFacts(p) ==
    [hasGitignore |-> JsBool(ExistsSync(p, ".gitignore")),
     hasReadme |-> JsBool(ExistsSync(p, "README.md"))]

\* the try block of analyzeProjectContext: how it ends, and the facts
\* assigned to constraints by then
TryBlock(p) ==
    LET constraints == EmptyObject
    IN  IF p.manifest.kind = "absent"
        THEN [status |-> "return", constraints |-> FileFacts(p) @@ constraints]
        ELSE IF p.manifest.kind \in {"unreadable", "unparsable", "null"}
             \* readFileSync, JSON.parse or the read of null.dependencies raised
             THEN [status |-> "throw", constraints |-> constraints]
        ELSE [status |-> "return",
              constraints |-> FileFacts(p) @@ ManifestFacts(p) @@ constraints]

\* analyzeProjectContext without its catch clause
analyzeUncaught(p) ==
    IF TryBlock(p).status = "throw" THEN Throws ELSE Returns(TryBlock(p).constraints)

\* analyzeProjectContext(projectPath): catch (error) {} swallows the error,
\* and the facts assigned until then are returned
analyzeProjectContext(p) == Returns(TryBlock(p).constraints)

\* the lines printed under 'Detected Context'
ContextLines(projectContext) ==
    (IF Truthy(Get(projectContext, "hasTypeScript")) THEN <<"  - TypeScript project">>
     ELSE <<>>)
    \o (IF Truthy(Get(projectContext, "hasReact")) THEN <<"  - React framework">> ELSE <<>>)
    \o (IF ~StrictEq(Get(projectContext, "packageManager"), "npm")
        THEN <<"  - " \o JsToString(Get(projectContext, "packageManager"))
               \o " package manager">>
        ELSE <<>>)
    \o (IF Truthy(Get(projectContext, "hasLinting")) THEN <<"  - ESLint configured">>
        ELSE <<>>)
    \o (IF Truthy(Get(projectContext, "hasFormatting")) THEN <<"  - Prettier configured">>
        ELSE <<>>)

\* if (Object.keys(projectContext).length > 0) { ... }: what the CLI prints
\* about the context (the bullet character is written "-")
DetectedContext(projectContext) ==
    IF Cardinality(DOMAIN projectContext) > 0
    THEN <<"Detected Context:">> \o ContextLines(projectContext)
    ELSE <<>>

----------------------------------------------------------------------------
(* The optimizer's callers: the functions are applied to prompt texts.     *)

RECURSIVE Pad(_)
\* a filler of n characters
Pad(n) ==
    IF n = 0 THEN ""
    ELSE LET half == Pad(n \div 2)
         IN  half \o half \o (IF n % 2 = 1 THEN "x" ELSE "")

\* the lengths of the texts analysed: around the breakpoints of the token
\* estimate (4 characters), of the classification (120, 220, 320 tokens) and
\* of the token advice (200 tokens)
TextLengths ==
    {0, 1, 3, 4, 5, 24, 25, 476, 477, 480, 481, 800, 801, 804, 805,
     876, 877, 880, 881, 1276, 1277, 1280, 1281, 1400}

\* qualifiers a text may start with
Qualifiers == {"", "comprehensive", "A detailed ", "Detailed "}

\* comma lists a text may hold: none, five pieces, six pieces
CommaLists == {"", "a,b,c,d,e", "a,b,c,d,e,f"}

\* the text of n characters that starts with head
TextOf(n, head) == head \o Pad(n - Len(head))

\* the prompt texts handed to analyzeTokenEfficiency
AnalysisTexts ==
    {TextOf(n, q \o c) : <<n, q, c>> \in
        {t \in TextLengths \X Qualifiers \X CommaLists : Len(t[2] \o t[3]) <= t[1]}}

\* base prompts as the builders return them: a plain one, one that names
\* React, one that names TypeScript, one that names the package manager pnpm
BasePrompts ==
    {buildPromptWeb("init", TRUE, EmptyObject).value,
     buildPromptNode("init", TRUE, [projectType |-> JsString("browser"),
                                    framework |-> JsString("react")]).value,
     buildPromptNode("init", TRUE, [projectType |-> JsString("browser"),
                                    framework |-> JsString("vue")]).value,
     buildPromptNode("init", TRUE, [projectType |-> JsString("node"),
                                    framework |-> JsString("express"),
                                    packageManager |-> JsString("pnpm")]).value}

RECURSIVE Objects(_, _)
\* the objects with an optional value for each key of keys
Objects(keys, values) ==
    IF keys = <<>> THEN {EmptyObject}
    ELSE LET rest == Objects(Tail(keys), values)
         IN  rest \cup {(Head(keys) :> v) @@ o : v \in values[Head(keys)], o \in rest}

\* the context arguments: missing, null, and objects with or without the
\* facts optimizePrompt reads
Contexts ==
    {NoContext, NullContext, ContextObject("hasGitignore" :> JsBool(TRUE))}
    \cup {ContextObject(f) :
            f \in Objects(<<"hasTypeScript", "hasReact", "packageManager">>,
                          [hasTypeScript |-> {JsBool(TRUE), JsBool(FALSE)},
                           hasReact |-> {JsBool(TRUE)},
                           packageManager |-> Strings({"npm", "pnpm"})])}

\* the option objects handed to optimizePrompt
OptimizerOptions ==
    Objects(<<"outputFormat", "complexity">>,
            [outputFormat |-> Strings({"code", "commented", "guided", "detailed"}),
             complexity |-> Strings({"simple", "medium", "complex"})])

\* the base prompts handed to generatePromptVariations: those of the
\* builders, the empty one and one without a full stop
VariationPrompts == BasePrompts \cup {"", "Implement login as hook"}

\* the option objects handed to generatePromptVariations
VariationOptions ==
    Objects(<<"framework", "type", "complexity">>,
            [framework |-> Strings({"react", "express", "other"}),
             type |-> Strings({"init", "fix", "deploy"}),
             complexity |-> Strings({"simple"})])

\* the contents of package.json in the projects probed
Manifests ==
    {NoManifest, BadManifest("unreadable"), BadManifest("unparsable"), BadManifest("null"),
     Manifest({}, {}, {}, Undefined, Undefined),
     Manifest({"react"}, {"typescript", "eslint"}, {"test"}, Undefined, JsString("index.js")),
     Manifest({"typescript"}, {"prettier", "vitest"}, {"lint", "format"},
              JsString(">=18"), Undefined)}

\* the projects probed
Projects ==
    {[manifest |-> m, files |-> f] :
        m \in Manifests,
        f \in SUBSET {"pnpm-lock.yaml", "yarn.lock", ".gitignore", "README.md"}}

OptimizerInit ==
    /\ type = "init"
    /\ optionsGiven = TRUE
    /\ options = EmptyObject
    /\ passed = EmptyObject
    /\ result = NoResult
    /\ pc = "idle"
    /\ basePrompt = ""
    /\ context = NoContext
    /\ out = NoOutput
    /\ project = NoProject
    /\ NoPage

\* const analysis = analyzeTokenEfficiency(prompt)
Analyze(prompt) ==
    /\ pc = "idle"
    /\ basePrompt' = prompt
    /\ out' = [status |-> "return", value |-> analyzeTokenEfficiency(prompt)]
    /\ pc' = "analyzed"
    /\ UNCHANGED <<optionsGiven, options, context, project>>
    /\ UNCHANGED builderVars
    /\ UNCHANGED webVars

\* const prompt = optimizePrompt(basePrompt, options, projectContext)
Optimize(prompt, given, o, ctx) ==
    /\ pc = "idle"
    /\ basePrompt' = prompt
    /\ optionsGiven' = given
    /\ options' = o
    /\ context' = ctx
    /\ out' = optimizePrompt(prompt, given, o, ctx)
    /\ pc' = "optimized"
    /\ UNCHANGED project
    /\ UNCHANGED builderVars
    /\ UNCHANGED webVars

\* const variations = generatePromptVariations(basePrompt, options)
Vary(prompt, given, o) ==
    /\ pc = "idle"
    /\ basePrompt' = prompt
    /\ optionsGiven' = given
    /\ options' = o
    /\ out' = generatePromptVariations(prompt, given, o)
    /\ pc' = "varied"
    /\ UNCHANGED <<context, project>>
    /\ UNCHANGED builderVars
    /\ UNCHANGED webVars

\* const projectContext = analyzeProjectContext(), and the report on it
Probe(p) ==
    /\ pc = "idle"
    /\ project' = p
    /\ LET projectContext == analyzeProjectContext(p)
       IN  IF projectContext.status = "return"
           THEN /\ context' = ContextObject(projectContext.value)
                /\ out' = Returns(DetectedContext(projectContext.value))
           ELSE /\ context' = NoContext
                /\ out' = projectContext
    /\ pc' = "probed"
    /\ UNCHANGED <<optionsGiven, options, basePrompt>>
    /\ UNCHANGED builderVars
    /\ UNCHANGED webVars

OptimizerNext ==
    \/ \E prompt \in AnalysisTexts : Analyze(prompt)
    \/ \E prompt \in BasePrompts, o \in OptimizerOptions, ctx \in Contexts :
           Optimize(prompt, TRUE, o, ctx)
    \/ \E prompt \in BasePrompts, ctx \in Contexts : Optimize(prompt, FALSE, EmptyObject, ctx)
    \/ \E prompt \in VariationPrompts, o \in VariationOptions : Vary(prompt, TRUE, o)
    \/ \E prompt \in VariationPrompts : Vary(prompt, FALSE, EmptyObject)
    \/ \E p \in Projects : Probe(p)

OptimizerSpec == OptimizerInit /\ [][OptimizerNext]_vars

----------------------------------------------------------------------------
(* web/app.js: DYNAMIC_OPTIONS_CONFIG, the form of each task type.  An     *)
(* entry is a select (with the values of its options, in order) or a text  *)
(* input; the labels and placeholders are left out.                        *)

\* an entry without a condition
NoCondition == [field |-> "", value |-> Undefined]

DYNAMIC_OPTIONS_CONFIG ==
    LET Tags(values) == [i \in DOMAIN values |-> JsString(values[i])]
        YesNo == <<JsBool(TRUE), JsBool(FALSE)>>
        Entry(name, kind, required, values, default, condition) ==
            [name |-> name, type |-> kind, required |-> required, options |-> values,
             default |-> default, condition |-> condition]
        Input(name, required) == Entry(name, "input", required, <<>>, Undefined, NoCondition)
        InputIf(name, field, value) ==
            Entry(name, "input", FALSE, <<>>, Undefined, [field |-> field, value |-> value])
        Select(name, required, values, default) ==
            Entry(name, "select", required, values, default, NoCondition)
        SelectIf(name, values, default, field, value) ==
            Entry(name, "select", FALSE, values, default, [field |-> field, value |-> value])
    IN  [init |-> <<
            Input("projectName", TRUE),
            Select("projectType", TRUE,
                   Tags(<<"node", "browser", "full-stack", "cli", "library">>), Undefined),
            Select("framework", FALSE,
                   Tags(<<"vanilla", "react", "vue", "angular", "svelte", "express",
                          "fastify", "nest", "next", "nuxt", "gatsby", "astro", "vite",
                          "webpack", "rollup", "esbuild", "electron", "tauri", "other">>),
                   JsString("vanilla")),
            InputIf("customFramework", "framework", JsString("other")),
            Select("packageManager", FALSE, Tags(<<"pnpm", "npm", "yarn", "none">>),
                   JsString("pnpm")),
            Select("structure", FALSE, Tags(<<"flat", "layered", "modular", "monorepo">>),
                   Undefined),
            Select("dependencies", FALSE, Tags(<<"none", "minimal", "standard">>),
                   Undefined) >>,
         feature |-> <<
            Input("feature", TRUE),
            Select("pattern", FALSE, Tags(<<"function", "class", "hook", "service">>),
                   Undefined),
            Select("scope", FALSE, Tags(<<"component", "module", "feature">>), Undefined),
            Select("codeStyle", FALSE, Tags(<<"functional", "oop", "minimal">>), Undefined),
            Select("fileStructure", FALSE, Tags(<<"single", "split", "modular">>),
                   Undefined) >>,
         architecture |-> <<
            Input("feature", TRUE),
            Select("pattern", FALSE,
                   Tags(<<"mvc", "layered", "hexagonal", "microservice">>), Undefined) >>,
         testing |-> <<
            Input("module", TRUE),
            Select("testType", FALSE, Tags(<<"unit", "integration", "e2e">>), Undefined),
            Select("library", FALSE,
                   Tags(<<"Jest", "Vitest", "Mocha", "Cypress", "Playwright",
                          "Testing Library", "WebdriverIO", "Puppeteer", "Jasmine", "AVA",
                          "Storybook", "Karma", "Other">>),
                   JsString("Jest")),
            InputIf("customLibrary", "library", JsString("Other")),
            Select("coverage", FALSE, Tags(<<"80", "90", "95", "100">>), JsString("80")) >>,
         docs |-> <<
            Input("projectName", TRUE),
            Select("docType", FALSE,
                   Tags(<<"api", "user", "dev", "arch", "changelog", "contributing",
                          "security", "performance">>),
                   Undefined),
            Select("format", FALSE,
                   Tags(<<"markdown", "text", "html", "json", "yaml", "rst">>),
                   JsString("markdown")),
            Select("includeDiagrams", FALSE, YesNo, JsBool(TRUE)),
            SelectIf("diagramTypes",
                     Tags(<<"flowchart", "architecture", "database", "sequence", "class",
                            "network", "gantt", "mindmap">>),
                     JsString("flowchart"), "includeDiagrams", JsBool(TRUE)),
            SelectIf("diagramTool",
                     Tags(<<"mermaid", "plantuml", "ascii", "drawio", "graphviz", "other">>),
                     JsString("mermaid"), "includeDiagrams", JsBool(TRUE)),
            InputIf("customDiagramTool", "diagramTool", JsString("other")),
            Select("detailLevel", FALSE,
                   Tags(<<"minimal", "standard", "detailed", "tutorial">>),
                   JsString("standard")),
            Select("includeExamples", FALSE, YesNo, JsBool(TRUE)),
            Select("includeToc", FALSE, YesNo, JsBool(TRUE)) >>,
         fix |-> <<
            Input("issue", TRUE),
            Input("component", TRUE),
            Select("approach", FALSE,
                   Tags(<<"debug", "refactor", "optimize", "patch", "rewrite">>), Undefined),
            Select("priority", FALSE, Tags(<<"critical", "high", "medium", "low">>),
                   JsString("medium")),
            Input("errorMessage", FALSE) >>]

----------------------------------------------------------------------------
(* The page around the script (its HTML is not among the sources): the     *)
(* radio buttons named scaffoldType and the selects of the section         *)
(* .universal-options.  The radio buttons are the six task types, the      *)
(* universal selects are the output format and the complexity, with the    *)
(* values and the defaults of the CLI's universalQuestions.                *)

\* the values of input[name="scaffoldType"]
ScaffoldTypes == {"init", "feature", "architecture", "testing", "docs", "fix"}

\* .universal-options select: name -> the values of its options, the one
\* selected when the page is loaded first
UniversalSelects ==
    [outputFormat |-> <<"code", "commented", "guided", "detailed">>,
     complexity |-> <<"simple", "medium", "complex">>]

----------------------------------------------------------------------------
(* A JavaScript object whose key order can be observed (JSON.stringify,    *)
(* Object.keys): the sequence of its properties in insertion order.        *)

\* key in o
HasKey(o, key) == \E i \in DOMAIN o : o[i].key = key

\* o as a mapping from key to value
AsObject(o) ==
    [key \in {o[i].key : i \in DOMAIN o} |->
        o[CHOOSE i \in DOMAIN o : o[i].key = key].value]

\* o[key] = value: a new key goes last, a key held keeps its place
Assign(o, key, value) ==
    IF HasKey(o, key)
    THEN LET i == CHOOSE j \in DOMAIN o : o[j].key = key
         IN  SubSeq(o, 1, i - 1) \o <<[key |-> key, value |-> value]>>
             \o SubSeq(o, i + 1, Len(o))
    ELSE Append(o, [key |-> key, value |-> value])

\* delete o[key]
Delete(o, key) == SelectSeq(o, LAMBDA property : property.key # key)

----------------------------------------------------------------------------
(* The encoding of the share URL: JSON.stringify, btoa, the query string,  *)
(* URLSearchParams.get, atob, JSON.parse.  Texts are ASCII (the characters *)
(* 32..126); option values hold no quotation mark (sanitizeInput removes   *)
(* it) and no backslash, so a JSON string is the value between quotation   *)
(* marks.                                                                  *)

\* the characters with the codes 32..126, in order (the grave accent, code
\* 96, is shown as a tab)
Ascii ==
    " !\"#$%&'()*+,-./0123456789:;<=>?@ABCDEFGHIJKLMNOPQRSTUVWXYZ[\\]^_\tabcdefghijklmnopqrstuvwxyz{|}~"

\* the base64 alphabet
Base64 == "ABCDEFGHIJKLMNOPQRSTUVWXYZabcdefghijklmnopqrstuvwxyz0123456789+/"

\* the character of s at index i (from 1)
CharAt(s, i) == SubSeq(s, i, i)

\* String.prototype.charCodeAt(0) of a character of Ascii
CharCode == [c \in {CharAt(Ascii, i) : i \in 1..Len(Ascii)} |-> 31 + IndexFrom(Ascii, c, 1)]

\* the six bits a character of the base64 alphabet stands for
Base64Digit ==
    [c \in {CharAt(Base64, i) : i \in 1..Len(Base64)} |-> IndexFrom(Base64, c, 1) - 1]

RECURSIVE Concat(_, _, _)
\* pieces[lo] \o ... \o pieces[hi]
Concat(pieces, lo, hi) ==
    IF lo > hi THEN ""
    ELSE IF lo = hi THEN pieces[lo]
    ELSE LET mid == (lo + hi) \div 2
         IN  Concat(pieces, lo, mid) \o Concat(pieces, mid + 1, hi)

\* JSON.stringify({type: ..., options: ...}): the properties in insertion
\* order, a property whose value is undefined left out
Stringify(config) ==
    LET Quote(s) == "\"" \o s \o "\""
        kept == SelectSeq(config.options, LAMBDA property : property.value.kind # "undefined")
        Value(v) == IF v.kind = "boolean" THEN v.str ELSE Quote(JsToString(v))
        members == [i \in DOMAIN kept |-> Quote(kept[i].key) \o ":" \o Value(kept[i].value)]
    IN  "{\"type\":" \o Quote(config.type) \o ",\"options\":{" \o Join(members, ",") \o "}}"

\* btoa(s)
btoa(s) ==
    LET n == Len(s)
        Code(i) == IF i <= n THEN CharCode[CharAt(s, i)] ELSE 0
        Digit(d) == CharAt(Base64, d + 1)
        Block(b) ==
            LET i == 3 * b - 2
                bits == Code(i) * 65536 + Code(i + 1) * 256 + Code(i + 2)
            IN  Digit(bits \div 262144) \o Digit((bits \div 4096) % 64)
                \o (IF i + 1 <= n THEN Digit((bits \div 64) % 64) ELSE "=")
                \o (IF i + 2 <= n THEN Digit(bits % 64) ELSE "=")
        blocks == (n + 2) \div 3
    IN  Concat([b \in 1..blocks |-> Block(b)], 1, blocks)

\* new URLSearchParams(search).get('config') for search = '?config=' + value:
\* a plus sign of the query string stands for a space
SearchParam(value) == ReplaceAll(value, "+", " ")

\* atob(s): ASCII whitespace is dropped, padding is honoured only when the
\* length is a multiple of four; a byte outside 32..126 is shown as a line
\* feed.  "throw" for what is not base64.
atob(s) ==
    LET Unpadded(stripped) ==
            IF Len(stripped) % 4 = 0 /\ EndsWith(stripped, "==")
            THEN SubSeq(stripped, 1, Len(stripped) - 2)
            ELSE IF Len(stripped) % 4 = 0 /\ EndsWith(stripped, "=")
            THEN SubSeq(stripped, 1, Len(stripped) - 1)
            ELSE stripped
        Digit(unpadded, i) ==
            IF i <= Len(unpadded) THEN Base64Digit[CharAt(unpadded, i)] ELSE 0
        Char(code) == IF code \in 32..126 THEN CharAt(Ascii, code - 31) ELSE "\n"
        Chars(bits, i, n) ==
            Char(bits \div 65536)
            \o (IF i + 2 <= n THEN Char((bits \div 256) % 256) ELSE "")
            \o (IF i + 3 <= n THEN Char(bits % 256) ELSE "")
        Block(unpadded, i) ==
            Chars(Digit(unpadded, i) * 262144 + Digit(unpadded, i + 1) * 4096
                  + Digit(unpadded, i + 2) * 64 + Digit(unpadded, i + 3),
                  i, Len(unpadded))
        Blocks(unpadded, blocks) ==
            Concat([b \in 1..blocks |-> Block(unpadded, 4 * b - 3)], 1, blocks)
        Decoded(unpadded, n) ==
            IF n % 4 = 1 \/ \E i \in 1..n : CharAt(unpadded, i) \notin DOMAIN Base64Digit
            THEN [status |-> "throw", value |-> ""]
            ELSE [status |-> "return", value |-> Blocks(unpadded, (n + 3) \div 4)]
        Stripped(stripped) == Decoded(stripped, Len(stripped))
    IN  Stripped(Unpadded(ReplaceAll(s, " ", "")))

RECURSIVE ParseMembers(_, _, _)
\* the members of a JSON object from index i of text on, up to its closing
\* brace: "key":"string" | "key":true | "key":false, separated by commas
ParseMembers(text, i, members) ==
    LET keyEnd == IndexFrom(text, "\"", i + 1)
        key == SubSeq(text, i + 1, keyEnd - 1)
        at == keyEnd + 2
        stringEnd == IndexFrom(text, "\"", at + 1)
        parsed ==
            IF SubSeq(text, at, at + 3) = "true"
                THEN [ok |-> TRUE, value |-> JsBool(TRUE), next |-> at + 4]
            ELSE IF SubSeq(text, at, at + 4) = "false"
                THEN [ok |-> TRUE, value |-> JsBool(FALSE), next |-> at + 5]
            ELSE IF CharAt(text, at) = "\"" /\ stringEnd # 0
                      /\ ~Includes(SubSeq(text, at + 1, stringEnd - 1), "\n")
                THEN [ok |-> TRUE, value |-> JsString(SubSeq(text, at + 1, stringEnd - 1)),
                      next |-> stringEnd + 1]
            ELSE [ok |-> FALSE, value |-> Undefined, next |-> 0]
        held == Assign(members, key, parsed.value)
    IN  IF CharAt(text, i) # "\"" \/ keyEnd = 0 \/ CharAt(text, keyEnd + 1) # ":"
           \/ Includes(key, "\n") \/ ~parsed.ok
        THEN [status |-> "throw", value |-> <<>>, next |-> 0]
        ELSE IF CharAt(text, parsed.next) = ","
        THEN ParseMembers(text, parsed.next + 1, held)
        ELSE IF CharAt(text, parsed.next) = "}"
        THEN [status |-> "return", value |-> held, next |-> parsed.next + 1]
        ELSE [status |-> "throw", value |-> <<>>, next |-> 0]

\* JSON.parse(text) for the texts of Stringify: {"type":"...","options":{...}};
\* any other text is a SyntaxError
Parse(text) ==
    LET head == "{\"type\":\""
        typeEnd == IndexFrom(text, "\"", Len(head) + 1)
        middle == ",\"options\":{"
        at == typeEnd + 1 + Len(middle)
        members ==
            IF CharAt(text, at) = "}"
            THEN [status |-> "return", value |-> <<>>, next |-> at + 1]
            ELSE ParseMembers(text, at, <<>>)
    IN  IF StartsWith(text, head) /\ typeEnd # 0
           /\ SubSeq(text, typeEnd + 1, at - 1) = middle
           /\ members.status = "return"
           /\ SubSeq(text, members.next, Len(text)) = "}"
           /\ ~Includes(SubSeq(text, 1, typeEnd), "\n")
        THEN [status |-> "return",
              value |-> [type |-> SubSeq(text, Len(head) + 1, typeEnd - 1),
                         options |-> members.value]]
        ELSE [status |-> "throw", value |-> [type |-> "", options |-> <<>>]]

----------------------------------------------------------------------------
(* The script of the web page: the form.                                   *)

\* the page the script is served from (window.location.origin + pathname)
Location == "https://codeprompt.me/"

\* the entry of DYNAMIC_OPTIONS_CONFIG[t] with the name given
Find(t, name) ==
    LET config == DYNAMIC_OPTIONS_CONFIG[t]
    IN  config[CHOOSE i \in DOMAIN config : config[i].name = name]

\* input.value = value: a select takes a value only if one of its options
\* has it, and has no option selected otherwise (its value is then '')
SetValue(config, value) ==
    IF /\ config.type = "select"
       /\ \A i \in DOMAIN config.options : JsToString(config.options[i]) # value
    THEN ""
    ELSE value

\* createFormElement(config): the element, and currentOptions with the
\* default stored
createFormElement(config, o) ==
    LET actualDefault ==
            IF Truthy(config.default) THEN config.default
            ELSE IF config.type = "select" /\ Len(config.options) > 0
                 THEN config.options[1]
            ELSE JsString("")
        selected == {i \in DOMAIN config.options : config.options[i] = actualDefault}
        value ==
            IF config.type = "select"
            THEN IF selected # {}
                 THEN JsToString(
                          config.options[CHOOSE i \in selected : \A j \in selected : j <= i])
                 ELSE IF Len(config.options) > 0 THEN JsToString(config.options[1])
                 ELSE ""
            ELSE IF Truthy(actualDefault) THEN JsToString(actualDefault)
            ELSE ""
    IN  [element |->
             [value |-> value,
              display |-> IF config.condition = NoCondition THEN "" ELSE "none"],
         currentOptions |->
             IF Truthy(actualDefault) THEN Assign(o, config.name, actualDefault) ELSE o]

RECURSIVE CreateElements(_, _, _, _)
\* config.map(option => createFormElement(option)), from entry i on
CreateElements(config, i, elements, o) ==
    IF i > Len(config) THEN [dynamicOptions |-> elements, currentOptions |-> o]
    ELSE LET made == createFormElement(config[i], o)
         IN  CreateElements(config, i + 1, (config[i].name :> made.element) @@ elements,
                            made.currentOptions)

RECURSIVE CaptureValues(_, _, _, _)
\* newInputs.forEach(input => ...), from entry i on: the default is set and
\* stored, the value is stored, the selected value of a select is stored
CaptureValues(config, i, elements, o) ==
    IF i > Len(config) THEN [dynamicOptions |-> elements, currentOptions |-> o]
    ELSE LET name == config[i].name
             default == config[i].default
             value ==
                 IF Truthy(default) THEN SetValue(config[i], JsToString(default))
                 ELSE elements[name].value
             byDefault == IF Truthy(default) THEN Assign(o, name, default) ELSE o
             byValue ==
                 IF value # "" THEN Assign(byDefault, name, JsString(value)) ELSE byDefault
             bySelected ==
                 IF config[i].type = "select" /\ value # ""
                 THEN Assign(byValue, name, JsString(value))
                 ELSE byValue
         IN  CaptureValues(config, i + 1, [elements EXCEPT ![name].value = value],
                           bySelected)

\* updateDynamicOptions(): the form of task type t, currentOptions
\* afterwards, and the timeout it sets
updateDynamicOptions(t, o) ==
    IF t \notin DOMAIN DYNAMIC_OPTIONS_CONFIG
    THEN [dynamicOptions |-> <<>>, currentOptions |-> o, timers |-> <<>>]
    ELSE LET config == DYNAMIC_OPTIONS_CONFIG[t]
             made == CreateElements(config, 1, <<>>, o)
             captured == CaptureValues(config, 1, made.dynamicOptions, made.currentOptions)
         IN  [dynamicOptions |-> captured.dynamicOptions,
              currentOptions |-> captured.currentOptions,
              timers |-> <<[callback |-> "updatePrompt", delay |-> 100]>>]

\* the names of the fields of the form of task type t, in document order
FieldNames(t) ==
    IF t \in DOMAIN DYNAMIC_OPTIONS_CONFIG
    THEN [i \in DOMAIN DYNAMIC_OPTIONS_CONFIG[t] |-> DYNAMIC_OPTIONS_CONFIG[t][i].name]
    ELSE <<>>

\* the names of the selects of .universal-options, in document order
UniversalNames == <<"outputFormat", "complexity">>

RECURSIVE CollectValues(_, _, _)
\* inputs.forEach(input => { if (input.value) allOptions[input.name] = input.value })
CollectValues(names, values, allOptions) ==
    IF names = <<>> THEN allOptions
    ELSE CollectValues(
             Tail(names), values,
             IF values[Head(names)] # ""
             THEN Assign(allOptions, Head(names), JsString(values[Head(names)]))
             ELSE allOptions)

\* updatePrompt(), up to the call of CodePrompt.buildPrompt: the task type
\* and the options collected from currentOptions and from the two sections
\* of the page (the hidden fields included)
updatePrompt(t, o, universal, dynamic) ==
    [type |-> t,
     allOptions |->
         CollectValues(FieldNames(t), [name \in DOMAIN dynamic |-> dynamic[name].value],
                       CollectValues(UniversalNames, universal, o))]

\* updatePrompt(), from the call of CodePrompt.buildPrompt on: the base
\* prompt of the task type and the options collected
BasePromptOf(content) ==
    LET Shown(built) ==
            IF built.status = "return" THEN built.value
            ELSE "Error generating prompt. Please check your configuration."
    IN  CHOOSE text \in
            {Shown(built) :
                 built \in {buildPromptWeb(content.type, TRUE, AsObject(content.allOptions))}} :
            TRUE

\* sanitizeInput(input)
sanitizeInput(input) ==
    IF input = "" THEN ""
    ELSE LET trimmed == Trim(input)
             cut == SubSeq(trimmed, 1, IF Len(trimmed) < 1000 THEN Len(trimmed) ELSE 1000)
         IN  ReplaceAll(ReplaceAll(ReplaceAll(ReplaceAll(ReplaceAll(
                 cut, "<", ""), ">", ""), "\"", ""), "'", ""), "\t", "")

\* validateRequired without any test
validateAnything(value) == TRUE

\* validateRequired(value, fieldName)
validateRequired(value) == ~(value = "" \/ Trim(value) = "")

\* validateFormInput(input): whether the input is valid, and its value
\* afterwards
validateFormInput(required, value) ==
    IF required /\ ~validateRequired(value)
    THEN [valid |-> FALSE, value |-> value]
    ELSE [valid |-> TRUE, value |-> sanitizeInput(value)]

\* handleOptionChange(event) for the input named: whether it went as far as
\* updatePrompt(), the value of the input and currentOptions afterwards
handleOptionChange(text, required, name, value, o) ==
    LET checked ==
            IF text THEN validateFormInput(required, value)
            ELSE [valid |-> TRUE, value |-> value]
    IN  IF ~checked.valid
        THEN [updated |-> FALSE, value |-> value, currentOptions |-> o]
        ELSE [updated |-> TRUE, value |-> checked.value,
              currentOptions |-> Assign(o, name, JsString(sanitizeInput(value)))]

RECURSIVE HideOrShow(_, _, _, _, _)
\* conditionalFields.forEach(field => ...), over the fields named
HideOrShow(config, fieldName, fieldValue, elements, o) ==
    IF config = <<>> THEN [dynamicOptions |-> elements, currentOptions |-> o]
    ELSE LET field == Head(config)
         IN  IF field.condition.field # fieldName
             THEN HideOrShow(Tail(config), fieldName, fieldValue, elements, o)
             ELSE IF fieldValue = JsToString(field.condition.value)
             THEN HideOrShow(Tail(config), fieldName, fieldValue,
                             [elements EXCEPT ![field.name].display = "block"], o)
             ELSE HideOrShow(Tail(config), fieldName, fieldValue,
                             [elements EXCEPT ![field.name] =
                                  [value |-> "", display |-> "none"]],
                             Delete(o, field.name))

\* handleConditionalFields(event): the form and currentOptions afterwards
handleConditionalFields(t, fieldName, fieldValue, elements, o) ==
    HideOrShow(DYNAMIC_OPTIONS_CONFIG[t], fieldName, fieldValue, elements, o)

----------------------------------------------------------------------------
(* The script of the web page: loading, sharing, and the events.  A page   *)
(* is opened, its visitor changes the task type and the fields of the form *)
(* while the timeouts run, and copies the share URL; a second page is then *)
(* opened with that URL and followed until its timeouts have run.          *)

\* handleUrlParams() on a page just loaded, window.location.search given:
\* the task type, currentOptions, the form and the timeouts set
handleUrlParams(search) ==
    LET NotRestored ==
            [currentScaffoldType |-> "init", currentOptions |-> <<>>,
             dynamicOptions |-> <<>>, timers |-> <<>>]
        Rendered(t, form) ==
            [currentScaffoldType |-> t,
             currentOptions |-> form.currentOptions,
             dynamicOptions |-> form.dynamicOptions,
             timers |-> form.timers \o <<[callback |-> "setFormValues", delay |-> 100]>>]
        Restored(t, o) ==
            CHOOSE page \in {Rendered(t, form) : form \in {updateDynamicOptions(t, o)}} : TRUE
        Parsed(config) ==
            IF config.status = "throw" THEN NotRestored
            ELSE Restored(IF config.value.type # "" /\ config.value.type \in ScaffoldTypes
                          THEN config.value.type
                          ELSE "init",
                          config.value.options)
        Decoded(decodedString) ==
            IF decodedString.status = "throw" THEN NotRestored
            ELSE CHOOSE page \in
                     {Parsed(config) : config \in {Parse(decodedString.value)}} : TRUE
        Got(configParam) ==
            IF configParam = "" THEN NotRestored
            ELSE CHOOSE page \in
                     {Decoded(decodedString) : decodedString \in {atob(configParam)}} : TRUE
    IN  IF StartsWith(search, "?config=")
        THEN CHOOSE page \in
                 {Got(configParam) :
                      configParam \in
                          {SearchParam(SubSeq(search, Len("?config=") + 1, Len(search)))}} :
                 TRUE
        ELSE NotRestored

\* init(): setupEventListeners() with handleUrlParams(),
\* initializeUniversalOptions(), updateDynamicOptions() and the timeout of
\* the first updatePrompt()
init(search) ==
    LET universal == [name \in DOMAIN UniversalSelects |-> UniversalSelects[name][1]]
        Rendered(loaded, form) ==
            [currentScaffoldType |-> loaded.currentScaffoldType,
             currentOptions |-> form.currentOptions,
             dynamicOptions |-> form.dynamicOptions,
             universalOptions |-> universal,
             timers |-> loaded.timers \o form.timers
                        \o <<[callback |-> "updatePrompt", delay |-> 200]>>]
        Initialized(loaded) ==
            CHOOSE page \in
                {Rendered(loaded, form) :
                     form \in
                         {updateDynamicOptions(
                              loaded.currentScaffoldType,
                              CollectValues(UniversalNames, universal,
                                            loaded.currentOptions))}} :
                TRUE
    IN  CHOOSE page \in {Initialized(loaded) : loaded \in {handleUrlParams(search)}} : TRUE

\* the page is loaded: document.addEventListener('DOMContentLoaded', init)
Load(search) ==
    \E page \in {init(search)} :
        /\ currentScaffoldType' = page.currentScaffoldType
        /\ currentOptions' = page.currentOptions
        /\ dynamicOptions' = page.dynamicOptions
        /\ universalOptions' = page.universalOptions
        /\ timers' = page.timers
        /\ promptContent' = [type |-> "", allOptions |-> <<>>]
        /\ UNCHANGED <<type, optionsGiven, options, passed, result, basePrompt, context,
                       out, project>>

\* a visitor opens the page
Open ==
    /\ pc = "opening"
    /\ Load("")
    /\ pc' = "open"
    /\ UNCHANGED clipboard

\* the share URL is opened in a new page
Reopen ==
    /\ pc = "shared"
    /\ Load(SubSeq(clipboard, IndexFrom(clipboard, "?", 1), Len(clipboard)))
    /\ pc' = "reopened"
    /\ UNCHANGED clipboard

\* handleScaffoldTypeChange(event): another radio button is checked
ScaffoldTypeChange(t) ==
    /\ pc = "open"
    /\ t # currentScaffoldType
    /\ Len(timers) < MaxTimers
    /\ \E form \in {updateDynamicOptions(t, <<>>)} :
           /\ currentScaffoldType' = t
           /\ currentOptions' = form.currentOptions
           /\ dynamicOptions' = form.dynamicOptions
           /\ timers' = timers \o form.timers
    /\ promptContent' = updatePrompt(t, currentOptions', universalOptions, dynamicOptions')
    /\ UNCHANGED <<universalOptions, clipboard>>
    /\ UNCHANGED <<type, optionsGiven, options, passed, result, pc, basePrompt, context,
                   out, project>>

\* a field of the form, shown, is given a value: the event 'input' with
\* handleOptionChange, then the event 'change' with handleOptionChange and
\* handleConditionalFields
OptionChange(name, value) ==
    /\ pc = "open"
    /\ name \in DOMAIN dynamicOptions
    /\ dynamicOptions[name].display # "none"
    /\ LET config == Find(currentScaffoldType, name)
           text == config.type = "input"
       IN  /\ SetValue(config, value) = value
           /\ \E onInput \in
                      {handleOptionChange(text, config.required, name, value,
                                          currentOptions)} :
               \E onChange \in
                      {handleOptionChange(text, config.required, name, onInput.value,
                                          onInput.currentOptions)} :
               \E changed \in {[dynamicOptions EXCEPT ![name].value = onChange.value]} :
               \E shown \in
                      {handleConditionalFields(currentScaffoldType, name, onChange.value,
                                               changed, onChange.currentOptions)} :
                   /\ promptContent' =
                          IF onChange.updated
                          THEN updatePrompt(currentScaffoldType, onChange.currentOptions,
                                            universalOptions, changed)
                          ELSE promptContent
                   /\ currentOptions' = shown.currentOptions
                   /\ dynamicOptions' = shown.dynamicOptions
    /\ UNCHANGED <<currentScaffoldType, universalOptions, timers, clipboard>>
    /\ UNCHANGED <<type, optionsGiven, options, passed, result, pc, basePrompt, context,
                   out, project>>

\* a select of .universal-options is given a value: the event 'change' with
\* handleOptionChange
UniversalChange(name, value) ==
    /\ pc = "open"
    /\ value # universalOptions[name]
    /\ currentOptions' =
           handleOptionChange(FALSE, FALSE, name, value, currentOptions).currentOptions
    /\ universalOptions' = [universalOptions EXCEPT ![name] = value]
    /\ promptContent' =
           updatePrompt(currentScaffoldType, currentOptions', universalOptions',
                        dynamicOptions)
    /\ UNCHANGED <<currentScaffoldType, dynamicOptions, timers, clipboard>>
    /\ UNCHANGED <<type, optionsGiven, options, passed, result, pc, basePrompt, context,
                   out, project>>

RECURSIVE SetFormValues(_, _, _, _, _)
\* Object.keys(currentOptions).forEach(key => ...), from property i on: the
\* element named by the key is given the value of the property
SetFormValues(t, o, i, universal, elements) ==
    IF i > Len(o) THEN [universalOptions |-> universal, dynamicOptions |-> elements]
    ELSE LET key == o[i].key
             value == JsToString(o[i].value)
         IN  IF key \in DOMAIN universal
             THEN SetFormValues(
                      t, o, i + 1,
                      [universal EXCEPT ![key] =
                           IF \E j \in DOMAIN UniversalSelects[key] :
                                  UniversalSelects[key][j] = value
                           THEN value ELSE ""],
                      elements)
             ELSE IF key \in DOMAIN elements
             THEN SetFormValues(
                      t, o, i + 1, universal,
                      [elements EXCEPT ![key].value = SetValue(Find(t, key), value)])
             ELSE SetFormValues(t, o, i + 1, universal, elements)

\* a timeout runs its callback: one set earlier with a delay that is not
\* longer runs first
Timeout(i) ==
    /\ pc \in {"open", "reopened"}
    /\ i \in DOMAIN timers
    /\ \A j \in 1..(i - 1) : timers[j].delay > timers[i].delay
    /\ \E set \in
               {IF timers[i].callback = "setFormValues"
                THEN SetFormValues(currentScaffoldType, currentOptions, 1,
                                   universalOptions, dynamicOptions)
                ELSE [universalOptions |-> universalOptions,
                      dynamicOptions |-> dynamicOptions]} :
           /\ universalOptions' = set.universalOptions
           /\ dynamicOptions' = set.dynamicOptions
    /\ promptContent' =
           updatePrompt(currentScaffoldType, currentOptions, universalOptions',
                        dynamicOptions')
    /\ timers' = SubSeq(timers, 1, i - 1) \o SubSeq(timers, i + 1, Len(timers))
    /\ UNCHANGED <<currentScaffoldType, currentOptions, clipboard>>
    /\ UNCHANGED <<type, optionsGiven, options, passed, result, pc, basePrompt, context,
                   out, project>>

\* shareConfiguration(): the URL, "" when it is too long to be copied
shareConfiguration(t, o) ==
    LET jsonString == Stringify([type |-> t, options |-> o])
        encoded == btoa(jsonString)
        shareUrl == Location \o "?config=" \o encoded
    IN  IF Len(shareUrl) > 2000 THEN "" ELSE shareUrl

\* the button Share is clicked
Share ==
    /\ pc = "open"
    /\ \E shareUrl \in {shareConfiguration(currentScaffoldType, currentOptions)} :
           IF shareUrl = ""
           THEN UNCHANGED <<clipboard, pc>>
           ELSE clipboard' = shareUrl /\ pc' = "shared"
    /\ UNCHANGED <<currentScaffoldType, currentOptions, dynamicOptions, universalOptions,
                   promptContent, timers>>
    /\ UNCHANGED <<type, optionsGiven, options, passed, result, basePrompt, context,
                   out, project>>

\* the values a visitor gives to the fields of the form
Entries ==
    [projectName |-> {"", "~<app>"},
     framework |-> {"react", "other"},
     customFramework |-> {"Deno"},
     feature |-> {"   ", "login"},
     library |-> {"Other", "Jest"},
     customLibrary |-> {"uvu"},
     includeDiagrams |-> {"false", "true"},
     diagramTool |-> {"other", "mermaid"},
     customDiagramTool |-> {"D2"}]

\* the values a visitor gives to the selects of .universal-options
UniversalEntries == [outputFormat |-> {"commented"}]

WebInit ==
    /\ type = "init"
    /\ optionsGiven = TRUE
    /\ options = EmptyObject
    /\ passed = EmptyObject
    /\ result = NoResult
    /\ pc = "opening"
    /\ basePrompt = ""
    /\ context = NoContext
    /\ out = NoOutput
    /\ project = NoProject
    /\ NoPage

WebNext ==
    \/ Open
    \/ \E t \in ScaffoldTypes : ScaffoldTypeChange(t)
    \/ \E name \in DOMAIN Entries : \E value \in Entries[name] : OptionChange(name, value)
    \/ \E name \in DOMAIN UniversalEntries :
           \E value \in UniversalEntries[name] : UniversalChange(name, value)
    \/ \E i \in DOMAIN timers : Timeout(i)
    \/ Share
    \/ Reopen

WebSpec == WebInit /\ [][WebNext]_vars

----------------------------------------------------------------------------
(* Properties.                                                             *)

Called == pc \in {"node", "web"}
Returned == Called /\ result.status = "return"

\* the builder that made the call of this state, applied to other options
Build(o) ==
    LET r == IF pc = "node" THEN buildPromptNode(type, optionsGiven, o)
             ELSE buildPromptWeb(type, optionsGiven, o)
    IN  [status |-> r.status, value |-> r.value]

\* the template table of the builder that made the call of this state
Templates == IF pc = "node" THEN PROMPT_TEMPLATES ELSE WEB_PROMPT_TEMPLATES

\* C1: for each of the six task types and every option set, the empty one
\* included, the string buildPrompt returns holds no "{{" placeholder token.
C1_NoPlaceholderLeft ==
    (Returned /\ type \in KnownTypes) => ~Includes(result.value, "{{")

\* C2: for every known task type and every option set the returned string
\* ends with the clarification sentence, which occurs in it exactly once,
\* with or without a constraints clause.
C2_ClarificationOnce ==
    (Returned /\ type \in KnownTypes) =>
        /\ EndsWith(result.value, Clarification)
        /\ Occurrences(result.value, Clarification) = 1

\* a call that returned a prompt with a constraints clause before the
\* clarification sentence
C2_Witness ==
    /\ Returned
    /\ type = "fix"
    /\ Includes(result.value, ". Constraints: ")
    /\ EndsWith(result.value, "." \o Clarification)

\* the clauses the builder of this state collects for the options passed
Collected ==
    IF pc = "node"
    THEN LET o1 == CustomFrameworkNode(passed)
         IN  SwitchNode(type, "", CommonConstraintsNode(type, o1), o1,
                        ObjectKeys(type, o1)).constraints
    ELSE LET co == CustomFrameworkWeb(Merge(passed))
         IN  SwitchWeb(type, "", CommonConstraintsWeb(co), optionsGiven, passed, co,
                       CompleteKeys(type, passed)).constraints

\* C3: the segment ". Constraints: <clauses joined by ', '>." is in the
\* returned string if and only if at least one clause was collected; with no
\* clause collected the string holds no "Constraints:" at all.
C3_ConstraintsIffCollected ==
    (Returned /\ type \in KnownTypes) =>
        IF Collected # <<>>
        THEN /\ EndsWith(result.value,
                         ". Constraints: " \o Join(Collected, ", ") \o "." \o Clarification)
             /\ Occurrences(result.value, "Constraints:") = 1
        ELSE ~Includes(result.value, "Constraints")

\* a call for which no clause was collected, so the prompt is the base phrase
\* followed at once by the clarification sentence
C3_Witness ==
    /\ Returned
    /\ type = "feature"
    /\ DOMAIN passed = {"feature", "pattern"}
    /\ Collected = <<>>
    /\ ~Includes(result.value, "Constraints")

\* where the phrase dictionary of a task type goes: the option, the
\* dictionary, and the text of the base phrase that precedes the placeholder
PhraseSlot(t) ==
    CASE t = "feature" -> [key |-> "pattern", dict |-> Templates[t].patterns, before |-> " as "]
      [] t = "architecture" ->
             [key |-> "pattern", dict |-> Templates[t].patterns, before |-> " using "]
      [] t = "testing" -> [key |-> "testType", dict |-> Templates[t].types, before |-> "Write "]
      [] t = "docs" -> [key |-> "docType", dict |-> Templates[t].types, before |-> "Generate "]
      [] t = "fix" ->
             [key |-> "approach", dict |-> Templates[t].approaches, before |-> " using "]

\* C4: whenever the supplied pattern / testType / docType / approach is a key
\* of the task's phrase dictionary, the prompt shows the dictionary phrase in
\* the placeholder's position, not the raw tag.
C4_DictionaryPhraseShown ==
    (Returned /\ type \in KnownTypes \ {"init"}) =>
        LET slot == PhraseSlot(type)
            v == Get(passed, slot.key)
        IN  DictHas(slot.dict, v) =>
                Includes(result.value, slot.before \o DictGet(slot.dict, v))

\* the placeholder keys of the base phrase of task type t
PlaceholderKeys(t) ==
    {k \in DOMAIN fallbackValues : Includes(Templates[t].base, "{{" \o k \o "}}")}

\* C5: for every task type and placeholder key of its template (projectName
\* of init apart), the result with the option absent or blank equals the
\* result with the option supplied with its fallback-table value.
C5_FallbackEquivalence ==
    (Called /\ optionsGiven /\ type \in KnownTypes) =>
        \A k \in PlaceholderKeys(type) :
            (k \notin DOMAIN passed \/ StrictEq(passed[k], "")) =>
                result = Build((k :> fallbackValues[k]) @@ passed)

\* C6: after buildPrompt returns the caller's options mapping holds the same
\* keys and values as before the call.
C6_OptionsUnchanged == Called => options = passed

\* C7: buildPrompt never raises, whatever the type tag and the option values
\* (strings, booleans, absent), a missing options argument included.
C7_NeverRaises == Called => result.status = "return"

\* C8: for a type tag that is none of the six known tags buildPrompt returns
\* the 'unknown type' sentinel as its whole result and does not raise.
C8_UnknownTypeSentinel ==
    (Called /\ type \notin KnownTypes) =>
        result = [status |-> "return", value |-> UnknownType]

C10_CustomLibrary ==
    (Returned /\ type = "testing" /\ StrictEq(Get(passed, "library"), "Other")
        /\ Truthy(Get(passed, "customLibrary"))) =>
        /\ Includes(result.value, " using " \o JsToString(Get(passed, "customLibrary")))
        /\ ~Includes(result.value, "using Other")

\* the caller's original options hold a projectName that is a non-blank string
NamedByCaller ==
    LET v == Get(passed, "projectName")
    IN  v.kind = "string" /\ Trim(v.str) # ""

\* the returned prompt was built from the "called '<name>'" template
UsesAlternate == Includes(result.value, " project called '")

\* C11: for init the "called '<name>'" template is used if and only if
\* projectName is present and non-blank in the caller's own options (a name
\* from the fallback table never triggers it), and after the switch every
\* placeholder of that template is substituted again.
C11_AlternateTemplate ==
    (Returned /\ type = "init") =>
        /\ UsesAlternate <=> NamedByCaller
        /\ UsesAlternate =>
               /\ Includes(result.value, " called '" \o passed["projectName"].str \o "' with ")
               /\ ~Includes(result.value, "{{")

\* the orders in which the keys of the set S can have been inserted
KeyOrders(S) ==
    {f \in [1..Cardinality(S) -> S] : \A i, j \in 1..Cardinality(S) : f[i] = f[j] => i = j}

\* the clauses the builder of this state collects for the options o whose
\* keys were inserted in the given order
ClausesOf(o, order) ==
    IF pc = "node"
    THEN LET o1 == CustomFrameworkNode(o)
         IN  SwitchNode(type, "", CommonConstraintsNode(type, o1), o1, order).constraints
    ELSE LET co == CustomFrameworkWeb(Merge(o))
             keys == fallbackKeys \o SelectSeq(order, LAMBDA k : k \notin DOMAIN fallbackValues)
         IN  SwitchWeb(type, "", CommonConstraintsWeb(co), optionsGiven, o, co, keys).constraints

\* the options that decide constraint clauses, in the documented order of
\* their clauses, for task type t
ClauseOrder(t) ==
    <<"framework", "outputFormat", "complexity", "codeStyle", "fileStructure", "dependencies">>
    \o CASE t = "init" -> <<"packageManager", "structure">>
         [] t = "feature" -> <<"scope">>
         [] t = "testing" -> <<"library", "coverage">>
         [] t = "docs" ->
                <<"format", "detailLevel", "includeDiagrams", "includeExamples", "includeToc">>
         [] t = "fix" -> <<"priority", "errorMessage", "category">>
         [] OTHER -> <<>>

\* option k together with the options that only refine its clause
ClauseGroup(k) ==
    CASE k = "framework" -> {"framework", "customFramework"}
      [] k = "library" -> {"library", "customLibrary"}
      [] k = "includeDiagrams" ->
             {"includeDiagrams", "diagramTypes", "diagramTool", "customDiagramTool"}
      [] OTHER -> {k}

\* the caller's options cut down to option k and its refinements; the library,
\* the one option whose fallback value yields a clause, is blanked otherwise
OnlyOption(k) ==
    LET own == [x \in DOMAIN passed \cap ClauseGroup(k) |-> passed[x]]
    IN  IF k = "library" THEN own ELSE own @@ ("library" :> JsString(""))

RECURSIVE ClausesInOrder(_)
\* the clauses of the options in keys, each collected on its own, end to end
ClausesInOrder(keys) ==
    IF keys = <<>> THEN <<>>
    ELSE LET o == OnlyOption(Head(keys))
         IN  ClausesOf(o, ObjectKeys(type, o)) \o ClausesInOrder(Tail(keys))

Analyzed == pc = "analyzed"

\* C13: estimatedTokens is the ceiling of the prompt's length divided by 4,
\* and the empty prompt gives 0 tokens, 'excellent' and no recommendation.
C13_EstimatedTokens ==
    Analyzed =>
        LET n == out.value.estimatedTokens
        IN  /\ 4 * n >= Len(basePrompt)
            /\ 4 * n < Len(basePrompt) + 4
            /\ basePrompt = "" =>
                   out.value = [estimatedTokens |-> 0, efficiency |-> "excellent",
                                recommendations |-> <<>>]

\* the empty prompt analysed, and a prompt whose length is no multiple of 4
C13_Witness ==
    /\ Analyzed
    /\ basePrompt = ""
    /\ out.value.estimatedTokens = 0
    /\ \E p \in AnalysisTexts :
           Len(p) = 477 /\ analyzeTokenEfficiency(p).estimatedTokens = 120

\* C14: the classification uses strict thresholds in increasing order: fewer
\* than 120 tokens 'excellent', 120..219 'good', 220..319 'fair', 320 and more
\* 'verbose'; 480 characters are 120 tokens and 'good'; no other value occurs.
C14_Thresholds ==
    Analyzed =>
        LET n == out.value.estimatedTokens
            e == out.value.efficiency
        IN  /\ e \in {"excellent", "good", "fair", "verbose"}
            /\ e = "excellent" <=> n < 120
            /\ e = "good" <=> (120 <= n /\ n <= 219)
            /\ e = "fair" <=> (220 <= n /\ n <= 319)
            /\ e = "verbose" <=> n >= 320
            /\ Len(basePrompt) = 480 => (n = 120 /\ e = "good")

\* a prompt of exactly 480 characters analysed
C14_Witness ==
    /\ Analyzed
    /\ Len(basePrompt) = 480
    /\ out.value.estimatedTokens = 120
    /\ out.value.efficiency = "good"

\* the buckets in their order
Rank(efficiency) ==
    CASE efficiency = "excellent" -> 1
      [] efficiency = "good" -> 2
      [] efficiency = "fair" -> 3
      [] efficiency = "verbose" -> 4

\* the token estimates of the texts analysed
TokenCounts == {Ceil(n, 4) : n \in TextLengths}

\* C15 (as stated): of two prompts with token estimates a < b the first is
\* classified into a strictly lower bucket than the second.
C15_StrictlyMonotonic ==
    Analyzed =>
        \A b \in TokenCounts :
            out.value.estimatedTokens < b =>
                Rank(out.value.efficiency) < Rank(Efficiency(b))

\* C15 (amended): the classification is monotonic, not strictly: of two
\* prompts with token estimates a < b the first is classified into the same
\* or a lower bucket than the second.
C15_Monotonic ==
    Analyzed =>
        \A b \in TokenCounts :
            out.value.estimatedTokens < b =>
                Rank(out.value.efficiency) <= Rank(Efficiency(b))

\* a prompt analysed for which the texts hold a longer one of the same bucket
\* and a longer one of a higher bucket
C15_Witness ==
    /\ Analyzed
    /\ out.value.efficiency = "good"
    /\ \E b \in TokenCounts :
           out.value.estimatedTokens < b /\ Efficiency(b) = "good"
    /\ \E b \in TokenCounts :
           out.value.estimatedTokens < b /\ Efficiency(b) = "verbose"

\* the three checks of the recommendations, stated on the prompt
TokenAdvice(prompt) == Len(prompt) > 4 * 200
QualifierAdvice(prompt) == Includes(prompt, "comprehensive") \/ Includes(prompt, "detailed")
ListAdvice(prompt) == Occurrences(prompt, ",") + 1 > 5

\* the advisories of the checks that hold, in the order token, qualifier, list
Advisories(token, qualifier, list) ==
    (IF token THEN <<"Consider more specific constraints">> ELSE <<>>)
    \o (IF qualifier THEN <<"Remove verbose qualifiers">> ELSE <<>>)
    \o (IF list THEN <<"Simplify constraint list">> ELSE <<>>)

\* C16: the recommendations are the advisories of three independent checks in
\* the order token advice (more than 200 tokens), qualifier advice (the
\* prompt holds 'comprehensive' or 'detailed'), list advice (more than 5
\* pieces between commas); each of the eight combinations is produced by
\* some prompt.
C16_Recommendations ==
    /\ Analyzed =>
           out.value.recommendations =
               Advisories(out.value.estimatedTokens > 200, QualifierAdvice(basePrompt),
                          ListAdvice(basePrompt))
    /\ pc = "idle" =>
           \A token, qualifier, list \in BOOLEAN :
               \E p \in AnalysisTexts :
                   analyzeTokenEfficiency(p).recommendations =
                       Advisories(token, qualifier, list)

\* a prompt analysed that triggers the three checks at once
C16_Witness ==
    /\ Analyzed
    /\ TokenAdvice(basePrompt) /\ QualifierAdvice(basePrompt) /\ ListAdvice(basePrompt)
    /\ Len(out.value.recommendations) = 3

\* optimizePrompt has been called, and has returned
Optimized == pc = "optimized"
OptimizedOk == Optimized /\ out.status = "return"

\* what optimizePrompt appended to the base prompt
Appended == SubSeq(out.value, Len(basePrompt) + 1, Len(out.value))

\* the part of it that is the Context segment
ContextSegment ==
    LET from == IndexFrom(Appended, ". Context: ", 1)
        to == IndexFrom(Appended, ". Output: ", 1)
    IN  IF from = 0 THEN ""
        ELSE SubSeq(Appended, from, IF to = 0 THEN Len(Appended) ELSE to - 1)

\* C17: the Context segment holds the clause of a context fact only when the
\* fact is true / non-default and the fact's keyword is not already in the
\* base prompt, for each of hasTypeScript, hasReact and packageManager; the
\* segment is omitted when no clause qualifies.
C17_ContextClauses ==
    OptimizedOk =>
        LET facts == context.facts
            pm == Get(facts, "packageManager")
            ts == IsTrue(Get(facts, "hasTypeScript")) /\ ~Includes(basePrompt, "TypeScript")
            react == IsTrue(Get(facts, "hasReact")) /\ ~Includes(basePrompt, "React")
            manager == Truthy(pm) /\ ~StrictEq(pm, "npm") /\ ~Includes(basePrompt, pm.str)
        IN  /\ Includes(ContextSegment, "Use TypeScript") => ts
            /\ Includes(ContextSegment, "Follow React patterns") => react
            /\ (Truthy(pm) /\ Includes(ContextSegment, "Use " \o pm.str)) => manager
            /\ ~(ts \/ react \/ manager) => ~Includes(out.value, ". Context: ")

\* the options of the call without the option k
Without(k) == [x \in DOMAIN options \ {k} |-> options[x]]

\* what the call appends when its options are o
AppendedFor(o) ==
    LET r == optimizePrompt(basePrompt, optionsGiven, o, context).value
    IN  SubSeq(r, Len(basePrompt) + 1, Len(r))

\* the option k of the call contributes a phrase to the Output segment
Contributes(k) == k \in DOMAIN options /\ Appended # AppendedFor(Without(k))

\* C18: in the Output segment each of the outputFormat values code,
\* commented, guided and detailed contributes a phrase of its own, the
\* complexity levels simple and medium contribute a phrase and complex none;
\* the segment is omitted when neither option contributes.
C18_OutputClauses ==
    OptimizedOk =>
        LET fmt == Get(options, "outputFormat")
            cx == Get(options, "complexity")
        IN  /\ Truthy(fmt) => Contributes("outputFormat")
            /\ \A other \in {"code", "commented", "guided", "detailed"} :
                   (Truthy(fmt) /\ ~StrictEq(fmt, other)) =>
                       Appended # AppendedFor(("outputFormat" :> JsString(other)) @@ options)
            /\ (StrictEq(cx, "simple") \/ StrictEq(cx, "medium")) => Contributes("complexity")
            /\ StrictEq(cx, "complex") => ~Contributes("complexity")
            /\ Includes(Appended, ". Output: ")
                   <=> (Contributes("outputFormat") \/ Contributes("complexity"))

\* the context argument is missing, null, or an object without the facts
NoFacts ==
    \/ context.kind \in {"undefined", "null"}
    \/ DOMAIN context.facts \cap {"hasTypeScript", "hasReact", "packageManager"} = {}

\* C19: with a context that is missing, null, empty or without the expected
\* facts, optimizePrompt does not raise and returns a prompt without a
\* Context segment.
C19_NoContext ==
    (Optimized /\ optionsGiven /\ NoFacts) =>
        /\ out.status = "return"
        /\ ~Includes(out.value, ". Context: ")

\* generatePromptVariations has been called
Varied == pc = "varied"

C30_SameResult ==
    Called =>
        LET node == buildPromptNode(type, optionsGiven, passed)
            web == buildPromptWeb(type, optionsGiven, passed)
        IN  node.status = web.status /\ node.value = web.value

\* the variations the caller generates from the prompt just built and the
\* options it collected
FlowVariations == generatePromptVariations(result.value, optionsGiven, passed).value

\* C21: for each of the six task types, the Learning Focused variation that
\* the CLI or web flow generates from the built prompt and the collected
\* options holds the hint phrase of that task type.
C21_TypeHint ==
    (Returned /\ type \in KnownTypes) =>
        /\ FlowVariations[3].name = "Learning Focused"
        /\ Includes(FlowVariations[3].prompt, getTypeHints(JsString(type)))

\* the substituted base phrase of the prompt just built: the prompt without
\* its constraints clause and clarification sentence
BasePhrase ==
    LET tail == AppendClarification(AppendConstraints("", Collected))
    IN  SubSeq(result.value, 1, Len(result.value) - Len(tail))

\* C24: for a prompt built by buildPrompt, the core action that the Ultra
\* Minimal, Production Ready and Learning Focused variations start with is
\* the complete substituted base phrase of that prompt, whatever option
\* values the user supplied.
C24_CoreAction ==
    (Returned /\ type \in KnownTypes) =>
        \A i \in 1..3 :
            StartsWith(FlowVariations[i].prompt, BasePhrase \o ". ")

\* C25: for each of the four variations the token estimate it carries is at
\* most the estimate analyzeTokenEfficiency computes on its prompt string.
C25_LocalEstimate ==
    (Varied /\ out.status = "return") =>
        \A i \in 1..Len(out.value) :
            out.value[i].tokens <= analyzeTokenEfficiency(out.value[i].prompt).estimatedTokens

\* variations of a built prompt with constraints and a framework hint, whose
\* own estimates are below the analysed ones
C25_Witness ==
    /\ Varied
    /\ Includes(basePrompt, ". Constraints: ")
    /\ StrictEq(Get(options, "framework"), "react")
    /\ \A i \in 1..4 :
           out.value[i].tokens < analyzeTokenEfficiency(out.value[i].prompt).estimatedTokens

----------------------------------------------------------------------------
(* The project-context prober and the CLI's report.                        *)

\* analyzeProjectContext has been called and its context reported
Probed == pc = "probed"

\* C23: analyzeProjectContext never raises, and when package.json cannot be
\* read or parsed it returns an object without any fact.
C23_FailsSoft ==
    Probed =>
        /\ out.status = "return"
        /\ project.manifest.kind \in {"unreadable", "unparsable"} =>
               context = ContextObject(EmptyObject)

\* an unparsable package.json beside a lock file and a README
C23_Witness ==
    /\ Probed
    /\ project.manifest.kind = "unparsable"
    /\ {"yarn.lock", "README.md"} \subseteq project.files
    /\ out.status = "return"
    /\ context = ContextObject(EmptyObject)

\* C29: the report has a package-manager line only when the context names a
\* package manager other than npm.
C29_PackageManagerLine ==
    (Probed /\ out.status = "return") =>
        \A i \in 1..Len(out.value) :
            EndsWith(out.value[i], " package manager") =>
                /\ "packageManager" \in DOMAIN context.facts
                /\ ~StrictEq(context.facts["packageManager"], "npm")

----------------------------------------------------------------------------
(* The web page.                                                           *)

\* a page is open and its visitor is at work
PageOpen == pc = "open"

\* the entry of the form shown that has the name given is a required text field
RequiredText(name) ==
    /\ name \in DOMAIN dynamicOptions
    /\ Find(currentScaffoldType, name).type = "input"
    /\ Find(currentScaffoldType, name).required

PromptShown == promptContent.type # ""

\* C26: on an open page, every option the prompt shown was built from is
\* held by currentOptions, the option set that is shared, with the same value.
C26_ExportsWhatIsShown ==
    (PageOpen /\ PromptShown) =>
        \A i \in DOMAIN promptContent.allOptions :
            /\ HasKey(currentOptions, promptContent.allOptions[i].key)
            /\ AsObject(currentOptions)[promptContent.allOptions[i].key]
                   = promptContent.allOptions[i].value

\* the conditional fields of the form shown
ConditionalFields ==
    {name \in DOMAIN dynamicOptions :
         Find(currentScaffoldType, name).condition # NoCondition}

\* the field that controls the conditional field named holds the value of
\* its condition
ConditionMet(name) ==
    LET condition == Find(currentScaffoldType, name).condition
    IN  dynamicOptions[condition.field].value = JsToString(condition.value)

\* C27: on an open page, from the first rendering of a form on, a
\* conditional field whose controlling field does not hold the value of its
\* condition is hidden and has no key in currentOptions, and one whose
\* controlling field holds that value is visible.
C27_ConditionalFields ==
    PageOpen =>
        \A name \in ConditionalFields :
            IF ConditionMet(name)
            THEN dynamicOptions[name].display # "none"
            ELSE /\ dynamicOptions[name].display = "none"
                 /\ ~HasKey(currentOptions, name)

\* the share URL has been opened in a new page, and the handlers and the
\* timeouts of its loading have run
Restored == pc = "reopened" /\ timers = <<>>

\* the configuration the share URL in the clipboard was made from
SharedConfig ==
    LET encoded ==
            SubSeq(clipboard, IndexFrom(clipboard, "?config=", 1) + Len("?config="),
                   Len(clipboard))
    IN  Parse(atob(encoded).value).value

\* C22: once a page opened with a share URL has run its loading handlers
\* and timeouts, buildPrompt returns for its task type and option set the
\* string it returns for the configuration that was shared.
C22_ShareRoundTrip ==
    Restored =>
        BasePromptOf([type |-> currentScaffoldType, allOptions |-> currentOptions])
            = BasePromptOf([type |-> SharedConfig.type, allOptions |-> SharedConfig.options])
====
